---- MODULE Spec2Model ----
(***************************************************************************)
(* Model of the multi-region fetch-and-aggregate engine of aws_monitor:    *)
(* ParallelFetcher.fetch_from_regions (a bounded thread pool fanned out    *)
(* over a list of regions), the per-service fetch closures and their       *)
(* clients (BaseAWSClient.safe_api_call, GlueClient, SageMakerClient), and *)
(* the merge loops of ResourceAggregator.                                  *)
(*                                                                         *)
(* A Python dict is a sequence of <<key, value>> pairs in insertion order. *)
(* A dict value is a TLA+ record; "'error' in result" is                   *)
(* "error" \in DOMAIN result.                                              *)
(***************************************************************************)
EXTENDS Integers, Sequences, FiniteSets, TLC

\* ------------------------------------------------------------------ bounds
\* Region names the caller may pass.
Regions == {"r1", "r2", "r3"}
\* Longest regions list passed to one call (duplicates allowed).
MaxRegions == 3
\* Largest max_workers of the pool.
MaxWorkers == 2

\* settings.API_TIMEOUT, the default per-task timeout in seconds.
API_TIMEOUT == 30
\* Default max_retries of safe_api_call.
MAX_RETRIES == 3

\* ------------------------------------------------------------- sequences
Range(s) == {s[i] : i \in 1..Len(s)}

SeqsUpTo(S, n) == UNION {[1..k -> S] : k \in 0..n}

RECURSIVE SumSeq(_)
SumSeq(s) == IF s = <<>> THEN 0 ELSE Head(s) + SumSeq(Tail(s))

RECURSIVE SumOver(_, _)
\* Sum of f[x] over the finite set S (f a function on S).
SumOver(S, f) ==
    IF S = {} THEN 0
    ELSE LET x == CHOOSE y \in S : TRUE IN f[x] + SumOver(S \ {x}, f)

CountIf(s, v) == Cardinality({i \in 1..Len(s) : s[i] = v})

\* ------------------------------------------------------------------ dicts
DictKeys(d) == {d[i][1] : i \in 1..Len(d)}

DictHas(d, k) == \E i \in 1..Len(d) : d[i][1] = k

DictGet(d, k) == d[CHOOSE i \in 1..Len(d) : d[i][1] = k][2]

\* d[k] = v: an existing key keeps its position, a new key is appended.
DictSet(d, k, v) ==
    IF DictHas(d, k)
    THEN [i \in 1..Len(d) |-> IF d[i][1] = k THEN <<k, v>> ELSE d[i]]
    ELSE Append(d, <<k, v>>)

HasError(result) == "error" \in DOMAIN result

\* ------------------------------------------------------- safe_api_call
\* One attempt of the wrapped boto3 call ends in one of these.
PermissionCodes == {"AccessDenied", "UnauthorizedOperation", "AccessDeniedException"}
ThrottleCodes == {"Throttling", "ThrottlingException", "RequestLimitExceeded"}

RECURSIVE SafeApiCallFrom(_, _, _)
\* The retry loop from attempt number `attempt` (0-based) on.  script[a + 1] is
\* what attempt a of the wrapped call does: "ok", a ClientError code, or
\* "Exception".  ok: a response was returned (None otherwise); calls: the number
\* of invocations of the wrapped call; sleeps: the waits, in order.
SafeApiCallFrom(script, attempt, max_retries) ==
    IF attempt >= max_retries
    THEN [ok |-> FALSE, calls |-> 0, sleeps |-> <<>>]
    ELSE LET o == script[attempt + 1]
             retry == SafeApiCallFrom(script, attempt + 1, max_retries)
             again == [ok |-> retry.ok, calls |-> 1 + retry.calls,
                       sleeps |-> <<2 ^ attempt>> \o retry.sleeps]
             giveUp == [ok |-> FALSE, calls |-> 1, sleeps |-> <<>>]
         IN  IF o = "ok" THEN [ok |-> TRUE, calls |-> 1, sleeps |-> <<>>]
             ELSE IF o \in ThrottleCodes
                  THEN IF attempt < max_retries - 1 THEN again ELSE giveUp
             ELSE IF o \in PermissionCodes THEN giveUp
             ELSE IF attempt < max_retries - 1 THEN again ELSE giveUp

safe_api_call(script, max_retries) == SafeApiCallFrom(script, 0, max_retries)

\* ------------------------------------------------------- provider inputs
\* What the provider does for a region during one call (the input of the model):
\*   "ok"             every API call succeeds with the region's data
\*   a ClientError    every attempt of every API call fails with that code
\*   "no_credentials" constructing the client raises
\*   "client_raises"  the client method itself raises
\*   "raise"          a bare fetch_function raises an Exception
\*   "raise_timeout"  a bare fetch_function raises the builtin TimeoutError
\*   "slow"           a bare fetch_function returns its payload, but only after
\*                    more than `timeout` seconds
\*   "hang"           the invocation never returns
RawBehaviours == {"ok", "slow", "raise", "raise_timeout", "hang"}
EC2Behaviours == {"ok", "client_raises", "no_credentials"}
ApiBehaviours == {"ok", "AccessDenied", "Throttling", "no_credentials"}

\* The region-partitioned services of ResourceAggregator; "raw" stands for a
\* bare fetch_function handed to fetch_from_regions by any other caller.
Services == {"ec2", "glue", "sagemaker"}

BehavioursOf(svc) ==
    CASE svc = "raw" -> RawBehaviours
      [] svc = "ec2" -> EC2Behaviours
      [] OTHER -> ApiBehaviours

\* The outcome of each attempt of a wrapped call under behaviour b.
ProviderScript(b) == [a \in 1..MAX_RETRIES |-> b]

\* The provider's data per region: EC2 instance states, Glue table counts per
\* database, SageMaker notebook / endpoint / training-job statuses.
InstanceStates(r) ==
    CASE r = "r1" -> <<"running", "stopped">>
      [] r = "r2" -> <<"running", "running", "terminated">>
      [] OTHER -> <<"stopped">>

GlueTables(r) ==
    CASE r = "r1" -> <<2>>
      [] r = "r2" -> <<1, 0>>
      [] OTHER -> <<>>

NotebookStatuses(r) ==
    CASE r = "r1" -> <<"InService", "Stopped">>
      [] r = "r2" -> <<"InService">>
      [] OTHER -> <<>>

EndpointStatuses(r) ==
    CASE r = "r1" -> <<"InService">>
      [] r = "r2" -> <<"Creating", "InService">>
      [] OTHER -> <<"InService">>

TrainingStatuses(r) ==
    CASE r = "r1" -> <<"Completed">>
      [] r = "r2" -> <<>>
      [] OTHER -> <<"InProgress">>

\* ---------------------------------------------------------------- clients
\* EC2Client.get_instances: one record per instance and the per-state counts.
EC2GetInstances(r) ==
    LET st == InstanceStates(r) IN
    [instances |-> [k \in 1..Len(st) |-> [id |-> <<r, "i", k>>, state |-> st[k], region |-> r]],
     summary |-> [total |-> Len(st), running |-> CountIf(st, "running"),
                  stopped |-> CountIf(st, "stopped"),
                  terminated |-> CountIf(st, "terminated")],
     region |-> r]

GlueEmptyResponse(r) ==
    [databases |-> <<>>, summary |-> [total_databases |-> 0, total_tables |-> 0],
     region |-> r]

\* GlueClient.get_databases: no response (safe_api_call returned None) gives
\* the empty response, never an error.
GlueGetDatabases(r, b) ==
    LET response == safe_api_call(ProviderScript(b), MAX_RETRIES)
        tc == GlueTables(r)
    IN  IF ~response.ok THEN GlueEmptyResponse(r)
        ELSE [databases |-> [k \in 1..Len(tc) |->
                               [name |-> <<r, "db", k>>, table_count |-> tc[k], region |-> r]],
              summary |-> [total_databases |-> Len(tc), total_tables |-> SumSeq(tc)],
              region |-> r]

\* _get_notebook_instances, _get_endpoints, _get_recent_training_jobs: each is
\* one safe_api_call; no response gives the empty list.
SageMakerList(r, b, statuses, tag) ==
    LET response == safe_api_call(ProviderScript(b), MAX_RETRIES) IN
    IF ~response.ok THEN <<>>
    ELSE [k \in 1..Len(statuses) |-> [name |-> <<r, tag, k>>, status |-> statuses[k], region |-> r]]

SageMakerGetResources(r, b) ==
    LET nbs == SageMakerList(r, b, NotebookStatuses(r), "nb")
        eps == SageMakerList(r, b, EndpointStatuses(r), "ep")
        tjs == SageMakerList(r, b, TrainingStatuses(r), "tj")
        statusOf(items) == [k \in 1..Len(items) |-> items[k].status]
    IN  [notebook_instances |-> nbs, endpoints |-> eps, training_jobs |-> tjs,
         summary |-> [total_notebooks |-> Len(nbs),
                      active_notebooks |-> CountIf(statusOf(nbs), "InService"),
                      total_endpoints |-> Len(eps),
                      active_endpoints |-> CountIf(statusOf(eps), "InService"),
                      total_training_jobs |-> Len(tjs),
                      running_training_jobs |-> CountIf(statusOf(tjs), "InProgress")],
         region |-> r]

\* The number of invocations of each wrapped provider call made for region r,
\* one entry per safe_api_call, in call order.
ProviderCalls(svc, r, b) ==
    LET one == safe_api_call(ProviderScript(b), MAX_RETRIES) IN
    CASE svc = "glue" /\ b # "no_credentials" ->
            <<one.calls>> \o (IF one.ok THEN [k \in 1..Len(GlueTables(r)) |-> one.calls]
                              ELSE <<>>)
      [] svc = "sagemaker" /\ b # "no_credentials" -> <<one.calls, one.calls, one.calls>>
      [] OTHER -> <<>>

\* ------------------------------------------------------- fetch closures
Returned(v) == [kind |-> "result", value |-> v]
Raised(type, msg) == [kind |-> "exception", type |-> type, msg |-> msg]

\* A bare fetch_function handed to fetch_from_regions: returns a payload or raises.
RawPayload(r) == [items |-> <<[id |-> <<r, "item", 1>>, region |-> r]>>, region |-> r]

RawFetch(r, b) ==
    CASE b \in {"ok", "slow"} -> Returned(RawPayload(r))
      [] b = "raise_timeout" -> Raised("TimeoutError", "timed out")
      [] OTHER -> Raised("Exception", "PermissionDenied")

\* try: client = XClient(region); return client.get_...()
\* except Exception as e: return {'error': str(e), 'region': region}
ClosureError(r, msg) == [error |-> msg, region |-> r]

\* A Python value that is not a dict: None, or a list.
NoneValue == [py_type |-> "NoneType"]
ListValue == [py_type |-> "list"]
IsMapping(v) == "py_type" \notin DOMAIN v
\* "'error' in v" is defined for dicts and lists, and raises TypeError for None.
SupportsIn(v) == IsMapping(v) \/ v.py_type # "NoneType"

\* The payload shapes a region's fetch may hand to the merge loop besides the
\* well-formed one: a field missing, or no mapping at all.
ShapeBehaviours ==
    {"ok", "no_summary", "no_instances", "no_counters", "none", "list", "no_credentials"}

ShapedPayload(r, b) ==
    LET p == EC2GetInstances(r) IN
    CASE b = "no_summary" -> [instances |-> p.instances, region |-> r]
      [] b = "no_instances" -> [summary |-> p.summary, region |-> r]
      [] b = "no_counters" -> [instances |-> p.instances, summary |-> [total |-> p.summary.total],
                               region |-> r]
      [] b = "none" -> NoneValue
      [] b = "list" -> ListValue
      [] OTHER -> p

fetch_ec2_from_region(r, b) ==
    CASE b = "no_credentials" -> Returned(ClosureError(r, "Unable to locate credentials"))
      [] b = "client_raises" -> Returned(ClosureError(r, "get_instances failed"))
      [] OTHER -> Returned(ShapedPayload(r, b))

fetch_glue_from_region(r, b) ==
    IF b = "no_credentials"
    THEN Returned(ClosureError(r, "Unable to locate credentials"))
    ELSE Returned(GlueGetDatabases(r, b))

fetch_sagemaker_from_region(r, b) ==
    IF b = "no_credentials"
    THEN Returned(ClosureError(r, "Unable to locate credentials"))
    ELSE Returned(SageMakerGetResources(r, b))

\* What the future of one invocation holds once it has finished.
FetchFunction(svc, r, b) ==
    CASE svc = "raw" -> RawFetch(r, b)
      [] svc = "ec2" -> fetch_ec2_from_region(r, b)
      [] svc = "glue" -> fetch_glue_from_region(r, b)
      [] OTHER -> fetch_sagemaker_from_region(r, b)

\* ------------------------------------------------------------ aggregators
\* dict.get(k, default)
Get(d, k, default) == IF k \in DOMAIN d THEN d[k] ELSE default

EmptyDict == [k \in {} |-> 0]

ErrorEntry(region, result) == [region |-> region, error |-> result.error]

\* fetch_ec2_resources with the stopped total fed from the running counter.
EC2MergeWrongCounter(acc, region, result) ==
    IF HasError(result)
    THEN [acc EXCEPT !.errors = Append(@, ErrorEntry(region, result))]
    ELSE LET summary == Get(result, "summary", EmptyDict) IN
         [acc EXCEPT !.successful_regions = Append(@, region),
                     !.instances = @ \o Get(result, "instances", <<>>),
                     !.running = @ + Get(summary, "running", 0),
                     !.stopped = @ + Get(summary, "running", 0),
                     !.terminated = @ + Get(summary, "terminated", 0)]

\* One iteration of the merge loop of fetch_ec2_resources.
EC2Merge(acc, region, result) ==
    IF HasError(result)
    THEN [acc EXCEPT !.errors = Append(@, ErrorEntry(region, result))]
    ELSE LET summary == Get(result, "summary", EmptyDict) IN
         [acc EXCEPT !.successful_regions = Append(@, region),
                     !.instances = @ \o Get(result, "instances", <<>>),
                     !.running = @ + Get(summary, "running", 0),
                     !.stopped = @ + Get(summary, "stopped", 0),
                     !.terminated = @ + Get(summary, "terminated", 0)]

\* fetch_glue_resources with the success branch not under an else.
GlueMergeNoElse(acc, region, result) ==
    LET summary == Get(result, "summary", EmptyDict)
        a1 == IF HasError(result)
              THEN [acc EXCEPT !.errors = Append(@, ErrorEntry(region, result))]
              ELSE acc
    IN  [a1 EXCEPT !.successful_regions = Append(@, region),
                   !.databases = @ \o Get(result, "databases", <<>>),
                   !.total_databases = @ + Get(summary, "total_databases", 0),
                   !.total_tables = @ + Get(summary, "total_tables", 0)]

\* One iteration of the merge loop of fetch_glue_resources.
GlueMerge(acc, region, result) ==
    IF HasError(result)
    THEN [acc EXCEPT !.errors = Append(@, ErrorEntry(region, result))]
    ELSE LET summary == Get(result, "summary", EmptyDict) IN
         [acc EXCEPT !.successful_regions = Append(@, region),
                     !.databases = @ \o Get(result, "databases", <<>>),
                     !.total_databases = @ + Get(summary, "total_databases", 0),
                     !.total_tables = @ + Get(summary, "total_tables", 0)]

\* One iteration of the merge loop of fetch_sagemaker_resources.
SageMakerMerge(acc, region, result) ==
    IF HasError(result)
    THEN [acc EXCEPT !.errors = Append(@, ErrorEntry(region, result))]
    ELSE LET summary == Get(result, "summary", EmptyDict) IN
         [acc EXCEPT !.successful_regions = Append(@, region),
                     !.notebook_instances = @ \o Get(result, "notebook_instances", <<>>),
                     !.endpoints = @ \o Get(result, "endpoints", <<>>),
                     !.training_jobs = @ \o Get(result, "training_jobs", <<>>),
                     !.active_notebooks = @ + Get(summary, "active_notebooks", 0),
                     !.active_endpoints = @ + Get(summary, "active_endpoints", 0)]

\* One iteration of the loop of ParallelFetcher.aggregate_results.
RawMerge(acc, region, result) ==
    IF HasError(result)
    THEN [acc EXCEPT !.errors = Append(@, ErrorEntry(region, result))]
    ELSE [acc EXCEPT !.successful_regions = Append(@, region),
                     !.items = @ \o (IF "instances" \in DOMAIN result THEN result.instances
                                     ELSE IF "buckets" \in DOMAIN result THEN result.buckets
                                     ELSE IF "databases" \in DOMAIN result THEN result.databases
                                     ELSE IF "items" \in DOMAIN result THEN result.items
                                     ELSE <<>>)]

\* The accumulators as initialised before each loop.
MergeStart(svc) ==
    CASE svc = "ec2" ->
            [instances |-> <<>>, running |-> 0, stopped |-> 0, terminated |-> 0,
             successful_regions |-> <<>>, errors |-> <<>>]
      [] svc = "glue" ->
            [databases |-> <<>>, total_databases |-> 0, total_tables |-> 0,
             successful_regions |-> <<>>, errors |-> <<>>]
      [] svc = "sagemaker" ->
            [notebook_instances |-> <<>>, endpoints |-> <<>>, training_jobs |-> <<>>,
             active_notebooks |-> 0, active_endpoints |-> 0,
             successful_regions |-> <<>>, errors |-> <<>>]
      [] OTHER -> [items |-> <<>>, successful_regions |-> <<>>, errors |-> <<>>]

RECURSIVE MergeLoop(_, _, _)
\* for region, result in region_results.items(): ...
MergeLoop(svc, region_results, acc) ==
    IF region_results = <<>> THEN acc
    ELSE LET region == Head(region_results)[1]
             result == Head(region_results)[2]
             next == CASE svc = "ec2" -> EC2Merge(acc, region, result)
                       [] svc = "glue" -> GlueMerge(acc, region, result)
                       [] svc = "sagemaker" -> SageMakerMerge(acc, region, result)
                       [] OTHER -> RawMerge(acc, region, result)
         IN  MergeLoop(svc, Tail(region_results), next)

\* The merge loops of ResourceAggregator call result.get(...) on every result
\* without an 'error': AttributeError when that result is not a dict.
\* aggregate_results only tests membership.
MergeRaises(svc, region_results) ==
    /\ svc # "raw"
    /\ \E k \in 1..Len(region_results) :
          ~HasError(region_results[k][2]) /\ ~IsMapping(region_results[k][2])

\* The dict each aggregator returns, built from the final accumulators.
AggregateOf(svc, region_results) ==
    LET acc == MergeLoop(svc, region_results, MergeStart(svc)) IN
    CASE svc = "ec2" ->
            [instances |-> acc.instances,
             summary |-> [total |-> Len(acc.instances), running |-> acc.running,
                          stopped |-> acc.stopped, terminated |-> acc.terminated],
             successful_regions |-> acc.successful_regions, errors |-> acc.errors]
      [] svc = "glue" ->
            [databases |-> acc.databases,
             summary |-> [total_databases |-> acc.total_databases,
                          total_tables |-> acc.total_tables],
             successful_regions |-> acc.successful_regions, errors |-> acc.errors]
      [] svc = "sagemaker" ->
            [notebook_instances |-> acc.notebook_instances, endpoints |-> acc.endpoints,
             training_jobs |-> acc.training_jobs,
             summary |-> [total_notebooks |-> Len(acc.notebook_instances),
                          active_notebooks |-> acc.active_notebooks,
                          total_endpoints |-> Len(acc.endpoints),
                          active_endpoints |-> acc.active_endpoints,
                          total_training_jobs |-> Len(acc.training_jobs)],
             successful_regions |-> acc.successful_regions, errors |-> acc.errors]
      [] OTHER ->
            [items |-> acc.items, total_count |-> Len(acc.items),
             successful_regions |-> acc.successful_regions,
             failed_regions |-> [k \in 1..Len(acc.errors) |-> acc.errors[k].region],
             errors |-> acc.errors]

\* ------------------------------------------------------------------ state
VARIABLES
    service,          \* which fetch closure / aggregator this call is for
    regions,          \* the regions list passed in
    max_workers,      \* ParallelFetcher.max_workers
    behaviour,        \* what the provider does for each region passed in
    pc,               \* "idle", "collecting", "returned", "raised", "done"
    future_to_region, \* the submitted futures, in submission order
    task,             \* per future: "queued", "running", "done"
    future,           \* per future: what it holds once done
    yielded,          \* the futures as_completed has handed to the loop
    results,          \* the results dict of fetch_from_regions
    invoked,          \* per region: invocations of fetch_function so far
    api_calls,        \* per future: invocations of each wrapped provider call
    expired,          \* the futures that ran for longer than the timeout
    aggregate,        \* the dict the aggregator returned
    ENABLED_REGIONS,      \* settings.ENABLED_REGIONS
    self_all_regions,     \* RegionManager._all_regions
    self_enabled_regions, \* RegionManager._enabled_regions
    thread,               \* per calling thread: its RegionManager call and where it is in it
    discoveries,          \* region discoveries attempted since construction or the last clear
    calls,                \* RegionManager calls started so far
    today,                \* datetime.now().date() of a get_cost_and_usage call
    mtd_cost,             \* the billing total of the period month_start..today
    yesterday_cost,       \* the billing total of the period yesterday..today
    subcall,              \* per billing sub-call: how it goes
    daily_response,       \* the DAILY response given to _get_daily_costs
    snapshot,             \* the dict get_cost_and_usage returned
    ce_response,          \* the grouped response given to _get_service_breakdown
    service_costs,        \* the list _get_service_breakdown returned
    queried,              \* the regions list passed to fetch_all_resources
    profile,              \* per region queried: what each service's provider does there
    s3_behaviour,         \* what the S3 provider does
    fa_pc,                \* where fetch_all_resources is
    resources,            \* the dict fetch_all_resources builds
    s3_fetches,           \* S3Client constructions and get_buckets calls so far
    summary,              \* what get_resource_summary returned
    func_script,          \* safe_api_call: what each invocation of func does
    retries,              \* safe_api_call: the max_retries argument
    attempt_no,           \* safe_api_call: the loop variable
    retry_pc,             \* safe_api_call: where the call is
    invocations,          \* how many times func was invoked
    slept,                \* the sleeps made, in order
    api_result            \* what safe_api_call returned or raised

fetch_vars == <<service, regions, max_workers, behaviour, pc, future_to_region, task,
                future, yielded, results, invoked, api_calls, expired, aggregate>>

region_vars == <<ENABLED_REGIONS, self_all_regions, self_enabled_regions, thread,
                 discoveries, calls>>

cost_vars == <<today, mtd_cost, yesterday_cost, subcall, daily_response, snapshot,
               ce_response, service_costs>>

all_vars == <<queried, profile, s3_behaviour, fa_pc, resources, s3_fetches, summary>>

retry_vars == <<func_script, retries, attempt_no, retry_pc, invocations, slept, api_result>>

vars == <<fetch_vars, region_vars, cost_vars, all_vars, retry_vars>>

inputs == <<service, regions, max_workers, behaviour>>

\* What the steps of one component leave alone: the other components' state.
beside_fetch == <<region_vars, cost_vars, all_vars, retry_vars>>
beside_regions == <<fetch_vars, cost_vars, all_vars, retry_vars>>
beside_cost == <<fetch_vars, region_vars, all_vars, retry_vars>>
beside_all == <<fetch_vars, region_vars, cost_vars, retry_vars>>
beside_retry == <<fetch_vars, region_vars, cost_vars, all_vars>>

Pending == [kind |-> "pending"]
NoAggregate == [kind |-> "none"]

Futures == 1..Len(future_to_region)
Running == {i \in Futures : task[i] = "running"}

\* An Optional[List[str]] attribute: None, or a list.
None_ == [none |-> TRUE]
Some(l) == [list |-> l]
IsNone(v) == "none" \in DOMAIN v

\* A decimal amount of dollars, kept exactly as a fraction.
Mills(a) == [num |-> a, den |-> 1000]

NoSnapshot == [kind |-> "none"]
NoResponse == [kind |-> "none"]

\* The billing sub-calls of get_cost_and_usage (lines 42, 48, 54, 67).
SubCalls == {"mtd", "daily", "services", "yesterday"}

\* Every sub-call gets its answer and reads it to the end.
AllAnswer == [c \in SubCalls |-> "ok"]

NoSummary == [kind |-> "none"]

NoResources ==
    [ec2 |-> NoAggregate, s3 |-> NoAggregate, glue |-> NoAggregate,
     sagemaker |-> NoAggregate, regions_queried |-> <<>>, total_regions |-> 0]

NoResult == [kind |-> "none"]

\* No safe_api_call is followed step by step in the run.
SafeApiCallUnused ==
    /\ func_script = <<>>
    /\ retries = 0
    /\ attempt_no = 0
    /\ retry_pc = "idle"
    /\ invocations = 0
    /\ slept = <<>>
    /\ api_result = NoResult

\* No fetch_all_resources call is part of the run.
AllResourcesUnused ==
    /\ queried = <<>>
    /\ profile = <<>>
    /\ s3_behaviour = "ok"
    /\ fa_pc = "idle"
    /\ resources = NoResources
    /\ s3_fetches = [clients |-> 0, get_buckets |-> 0]
    /\ summary = NoSummary

\* No CostExplorerClient call is part of the run.
CostExplorerUnused ==
    /\ today = [year |-> 1, month |-> 1, day |-> 1]
    /\ mtd_cost = Mills(0)
    /\ yesterday_cost = Mills(0)
    /\ subcall = AllAnswer
    /\ daily_response = NoResponse
    /\ snapshot = NoSnapshot
    /\ ce_response = NoResponse
    /\ service_costs = None_

\* No RegionManager call is part of the run.
RegionManagerUnused ==
    /\ ENABLED_REGIONS = <<>>
    /\ self_all_regions = None_
    /\ self_enabled_regions = None_
    /\ thread = <<>>
    /\ discoveries = 0
    /\ calls = 0

InitOf(svcs) ==
    /\ service \in svcs
    /\ regions \in SeqsUpTo(Regions, MaxRegions)
    /\ max_workers \in 1..MaxWorkers
    /\ behaviour \in [Range(regions) -> BehavioursOf(service)]
    /\ pc = "idle"
    /\ future_to_region = <<>>
    /\ task = <<>>
    /\ future = <<>>
    /\ yielded = {}
    /\ results = <<>>
    /\ invoked = [r \in Regions |-> 0]
    /\ api_calls = <<>>
    /\ expired = {}
    /\ aggregate = NoAggregate
    /\ RegionManagerUnused
    /\ CostExplorerUnused
    /\ AllResourcesUnused
    /\ SafeApiCallUnused

\* One fetch_from_regions call with a bare fetch_function.
Init == InitOf({"raw"})

\* One fetch_<service>_resources call of ResourceAggregator.
AggInit == InitOf(Services)

\* One fetch_ec2_resources call whose regions return payloads of any shape.
ShapeInit ==
    /\ service = "ec2"
    /\ regions \in SeqsUpTo(Regions, MaxRegions)
    /\ max_workers \in 1..MaxWorkers
    /\ behaviour \in [Range(regions) -> ShapeBehaviours]
    /\ pc = "idle"
    /\ future_to_region = <<>>
    /\ task = <<>>
    /\ future = <<>>
    /\ yielded = {}
    /\ results = <<>>
    /\ invoked = [r \in Regions |-> 0]
    /\ api_calls = <<>>
    /\ expired = {}
    /\ aggregate = NoAggregate
    /\ RegionManagerUnused
    /\ CostExplorerUnused
    /\ AllResourcesUnused
    /\ SafeApiCallUnused

\* ------------------------------------------------- fetch_from_regions
\* The regions one future each is submitted for.
Submitted(rs) == rs

\* Entry that falls back to one default region when the list is empty.
CallDefaultRegion ==
    /\ pc = "idle"
    /\ results' = <<>>
    /\ pc' = "collecting"
    /\ future_to_region' = IF regions = <<>> THEN <<"r1">> ELSE regions
    /\ task' = [i \in 1..Len(future_to_region') |-> "queued"]
    /\ future' = [i \in 1..Len(future_to_region') |-> Pending]
    /\ api_calls' = [i \in 1..Len(future_to_region') |-> <<>>]
    /\ UNCHANGED <<beside_fetch, inputs, yielded, invoked, expired, aggregate>>

\* Entry: the empty list returns at once; otherwise every region is submitted
\* to the pool before the first result is collected.
Call ==
    /\ pc = "idle"
    /\ results' = <<>>
    /\ IF regions = <<>>
       THEN /\ pc' = "returned"
            /\ UNCHANGED <<future_to_region, task, future, api_calls>>
       ELSE /\ pc' = "collecting"
            /\ future_to_region' = Submitted(regions)
            /\ task' = [i \in 1..Len(Submitted(regions)) |-> "queued"]
            /\ future' = [i \in 1..Len(Submitted(regions)) |-> Pending]
            /\ api_calls' = [i \in 1..Len(Submitted(regions)) |-> <<>>]
    /\ UNCHANGED <<beside_fetch, inputs, yielded, invoked, expired, aggregate>>

\* A pool that starts a thread per work item.
WorkerFreeUnbounded == TRUE

\* A pool thread is free to take the next work item.
WorkerFree == Cardinality(Running) < max_workers

\* A pool thread takes the oldest queued work item and enters fetch_function.
Start(i) ==
    /\ pc = "collecting"
    /\ task[i] = "queued"
    /\ \A j \in 1..(i - 1) : task[j] # "queued"
    /\ WorkerFree
    /\ task' = [task EXCEPT ![i] = "running"]
    /\ invoked' = [invoked EXCEPT ![future_to_region[i]] = @ + 1]
    /\ UNCHANGED <<beside_fetch, inputs, pc, future_to_region, future, yielded, results,
                   api_calls, expired, aggregate>>

\* Invocation i is one that is still running `timeout` seconds after it began.
OutlastsTimeout(i) == behaviour[future_to_region[i]] \in {"slow", "hang"}

\* A pool that puts a work item whose invocation raised back on the queue once.
FinishRequeuesFailure(i) ==
    /\ task[i] = "running"
    /\ behaviour[future_to_region[i]] # "hang"
    /\ OutlastsTimeout(i) => i \in expired
    /\ LET out == FetchFunction(service, future_to_region[i],
                                behaviour[future_to_region[i]])
       IN  IF out.kind = "exception" /\ future[i] = Pending /\ api_calls[i] = <<>>
           THEN /\ task' = [task EXCEPT ![i] = "queued"]
                /\ api_calls' = [api_calls EXCEPT ![i] = <<0>>]
                /\ UNCHANGED future
           ELSE /\ task' = [task EXCEPT ![i] = "done"]
                /\ future' = [future EXCEPT ![i] = out]
                /\ UNCHANGED api_calls
    /\ UNCHANGED <<beside_fetch, inputs, pc, future_to_region, yielded, results, invoked,
                   expired, aggregate>>

\* The invocation returns or raises; the future holds the outcome.
Finish(i) ==
    /\ task[i] = "running"
    /\ behaviour[future_to_region[i]] # "hang"
    /\ OutlastsTimeout(i) => i \in expired
    /\ task' = [task EXCEPT ![i] = "done"]
    /\ future' = [future EXCEPT ![i] =
                    FetchFunction(service, future_to_region[i],
                                  behaviour[future_to_region[i]])]
    /\ api_calls' = [api_calls EXCEPT ![i] =
                       ProviderCalls(service, future_to_region[i],
                                     behaviour[future_to_region[i]])]
    /\ UNCHANGED <<beside_fetch, inputs, pc, future_to_region, yielded, results, invoked,
                   expired, aggregate>>

\* `timeout` seconds pass while invocation i is still running.
Expire(i) ==
    /\ task[i] = "running"
    /\ OutlastsTimeout(i)
    /\ i \notin expired
    /\ expired' = expired \cup {i}
    /\ UNCHANGED <<beside_fetch, inputs, pc, future_to_region, task, future, yielded, results,
                   invoked, api_calls, aggregate>>

TimeoutMessage(timeout) == "Timeout after " \o ToString(timeout) \o "s"

\* as_completed hands over only futures that are done.
Completed(i) == task[i] = "done"

\* The try statement without its "except Exception" clause.
HandledTimeoutOnly(type) == type = "TimeoutError"

\* The exception types the try statement around future.result() handles.
Handled(type) == type \in {"TimeoutError", "Exception"}

\* A failure record that names the region submitted last instead of its own.
ResultEntryLastRegion(fut, region, timeout) ==
    IF fut.kind = "result" THEN fut.value
    ELSE [error |-> fut.msg, region |-> future_to_region[Len(future_to_region)]]

\* The value stored under the region for a finished future.
ResultEntry(fut, region, timeout) ==
    IF fut.kind = "result" THEN fut.value
    ELSE IF fut.type = "TimeoutError"
         THEN [error |-> TimeoutMessage(timeout), region |-> region]
         ELSE [error |-> fut.msg, region |-> region]

\* Exception handlers that log the failure and store nothing.
RecordedDropFailures(res, region, fut) ==
    IF fut.kind = "exception" THEN res
    ELSE DictSet(res, region, ResultEntry(fut, region, API_TIMEOUT))

\* results after "results[region] = ..." for a finished future.
Recorded(res, region, fut) ==
    DictSet(res, region, ResultEntry(fut, region, API_TIMEOUT))

\* One iteration of "for future in as_completed(future_to_region)".
Collect(i) ==
    /\ pc = "collecting"
    /\ i \in Futures \ yielded
    /\ Completed(i)
    /\ yielded' = yielded \cup {i}
    /\ IF future[i].kind = "exception" /\ ~Handled(future[i].type)
       THEN pc' = "raised" /\ UNCHANGED results
       ELSE /\ pc' = pc
            /\ results' = Recorded(results, future_to_region[i], future[i])
    /\ UNCHANGED <<beside_fetch, inputs, future_to_region, task, future, invoked, api_calls,
                   expired, aggregate>>

\* sum(1 for r in results.values() if 'error' not in r) raises TypeError when
\* a stored result does not support "in".
SuccessCountRaises(res) == \E k \in 1..Len(res) : ~SupportsIn(res[k][2])

\* The loop ends when every future was yielded; the pool shuts down and
\* fetch_from_regions returns results.
Return ==
    /\ pc = "collecting"
    /\ yielded = Futures
    /\ pc' = IF SuccessCountRaises(results) THEN "raised" ELSE "returned"
    /\ UNCHANGED <<beside_fetch, inputs, future_to_region, task, future, yielded, results,
                   invoked, api_calls, expired, aggregate>>

\* The caller of fetch_from_regions merges the mapping it got back.
Aggregate ==
    /\ pc = "returned"
    /\ IF MergeRaises(service, results)
       THEN pc' = "raised" /\ UNCHANGED aggregate
       ELSE pc' = "done" /\ aggregate' = AggregateOf(service, results)
    /\ UNCHANGED <<beside_fetch, inputs, future_to_region, task, future, yielded, results,
                   invoked, api_calls, expired>>

Next ==
    \/ Call
    \/ \E i \in Futures : Start(i)
    \/ \E i \in Futures : Finish(i)
    \/ \E i \in Futures : Expire(i)
    \/ \E i \in Futures : Collect(i)
    \/ Return
    \/ Aggregate

Spec == Init /\ [][Next]_vars

\* The steps of a fetch_<service>_resources call whose provider calls all end
\* within the timeout (a slow call merges like a prompt one, and with a hung
\* call no aggregate is ever built).
AggNext ==
    \/ Call
    \/ \E i \in Futures : Start(i)
    \/ \E i \in Futures : Finish(i)
    \/ \E i \in Futures : Collect(i)
    \/ Return
    \/ Aggregate

AggSpec == AggInit /\ [][AggNext]_vars

ShapeSpec == ShapeInit /\ [][AggNext]_vars

\* The pool's threads run, as_completed wakes up on completion and the caller
\* continues: every enabled step is eventually taken.  A hung invocation has
\* no Finish step.
FairSpec == Spec /\ WF_vars(Next)

\* ---------------------------------------------------------------------------
\* RegionManager (aws_clients/region_manager.py)
\* ---------------------------------------------------------------------------

AWS_DEFAULT_REGION == "us-east-1"

MaxDescribed == 2
MaxCands == 2
MaxCalls == 3

\* The region lists describe_regions may answer with.
DescribedLists == SeqsUpTo(Regions, MaxDescribed)

RegionsResponse(l) == [Regions |-> [i \in 1..Len(l) |-> [RegionName |-> l[i]]]]

\* What lines 30-34 do: constructing the client or get_client() raises, or
\* safe_api_call returns None (it swallows every error of the call itself), a
\* response without 'Regions', or a response with a 'Regions' list.
DiscoveryOutcomes ==
    {[raises |-> w, response |-> None_] : w \in {"BaseAWSClient", "get_client"}}
    \cup {[raises |-> "no", response |-> x] :
            x \in {None_, [ResponseMetadata |-> "200"]}
                  \cup {RegionsResponse(l) : l \in DescribedLists}}

\* "if response": None is falsy, a non-empty dict is truthy.
Truthy(response) == ~IsNone(response)

\* line 36: the discovery gave a response with a 'Regions' list.
Discovered(o) ==
    o.raises = "no" /\ Truthy(o.response) /\ "Regions" \in DOMAIN o.response

\* A response without 'Regions' is read as one listing no region.
AllRegionsFromNoKeyCheck(o) ==
    IF o.raises # "no"
    THEN <<AWS_DEFAULT_REGION>>
    ELSE IF Truthy(o.response)
         THEN IF "Regions" \in DOMAIN o.response
              THEN [i \in DOMAIN o.response.Regions |-> o.response.Regions[i].RegionName]
              ELSE <<>>
         ELSE <<AWS_DEFAULT_REGION>>

\* The list get_all_regions assigns to self._all_regions after a discovery.
AllRegionsFrom(o) ==
    IF o.raises # "no"
    THEN <<AWS_DEFAULT_REGION>>
    ELSE IF Truthy(o.response) /\ "Regions" \in DOMAIN o.response
         THEN [i \in DOMAIN o.response.Regions |-> o.response.Regions[i].RegionName]
         ELSE <<AWS_DEFAULT_REGION>>

\* The discovered regions that are candidates, in discovery order.
valid_regions_in_discovery_order(rs, all_regions) ==
    SelectSeq(all_regions, LAMBDA r : r \in Range(rs))

\* valid_regions = [r for r in regions if r in all_regions]
valid_regions(rs, all_regions) ==
    SelectSeq(rs, LAMBDA r : r \in Range(all_regions))

Operations == {"get_all_regions", "get_enabled_regions", "filter_regions", "clear_cache"}
Getters == {"get_all_regions", "get_enabled_regions"}

\* The candidate lists filter_regions is called with: some regions are not AWS
\* regions at all.
Candidates == SeqsUpTo(Regions \cup {"mars-1"}, MaxCands)

FirstStep(o) ==
    CASE o = "get_all_regions" -> "all_check"
      [] o = "get_enabled_regions" -> "enabled_check"
      [] o = "filter_regions" -> "all_check"
      [] o = "clear_cache" -> "clear_all"

NoOutcome == [raises |-> "no", response |-> None_]
TypeError == [raised |-> "TypeError"]

Threads == DOMAIN thread

\* A thread that is in no RegionManager call.  at: where the thread is; arg:
\* the regions argument; outcome: what its discovery met; value: what the
\* nested get_all_regions returned; returned: what the call returned;
\* discovered: discoveries this call attempted; cold_all, cold_enabled: whether
\* the caches were unset when the call began.
Idle ==
    [op |-> "none", at |-> "idle", arg |-> <<>>, outcome |-> NoOutcome,
     value |-> None_, returned |-> None_, discovered |-> 0,
     cold_all |-> FALSE, cold_enabled |-> FALSE]

RegionInitWith(n) ==
    /\ ENABLED_REGIONS \in {<<>>, <<"r2">>, <<"r3", "r1">>}
    /\ self_all_regions = None_
    /\ self_enabled_regions = None_
    /\ thread = [t \in 1..n |-> Idle]
    /\ discoveries = 0
    /\ calls = 0

\* No fetch is part of the run.
FetchUnused ==
    /\ service = "raw"
    /\ regions = <<>>
    /\ max_workers = 1
    /\ behaviour = <<>>
    /\ pc = "idle"
    /\ future_to_region = <<>>
    /\ task = <<>>
    /\ future = <<>>
    /\ yielded = {}
    /\ results = <<>>
    /\ invoked = [r \in Regions |-> 0]
    /\ api_calls = <<>>
    /\ expired = {}
    /\ aggregate = NoAggregate

\* A thread calls one of the methods.
RegionCall(t, ops) ==
    /\ thread[t].at \in {"idle", "done"}
    /\ calls < MaxCalls
    /\ \E o \in ops : \E a \in Candidates :
         /\ o # "filter_regions" => a = <<>>
         /\ thread' = [thread EXCEPT ![t] =
                [Idle EXCEPT !.op = o, !.at = FirstStep(o), !.arg = a,
                             !.cold_all = IsNone(self_all_regions),
                             !.cold_enabled = IsNone(self_enabled_regions)]]
    /\ calls' = calls + 1
    /\ UNCHANGED <<beside_regions, ENABLED_REGIONS, self_all_regions,
                   self_enabled_regions, discoveries>>

\* get_all_regions returns v to whoever called it.
GetAllReturns(t, v) ==
    thread' = [thread EXCEPT ![t] =
        CASE @.op = "get_enabled_regions" -> [@ EXCEPT !.at = "enabled_store", !.value = v]
          [] @.op = "filter_regions" -> [@ EXCEPT !.at = "filter", !.value = v]
          [] OTHER -> [@ EXCEPT !.at = "done", !.returned = v]]

\* line 25
AllCheck(t) ==
    /\ thread[t].at = "all_check"
    /\ thread' = [thread EXCEPT ![t].at =
            IF IsNone(self_all_regions) THEN "all_discover" ELSE "all_cached"]
    /\ UNCHANGED <<beside_regions, ENABLED_REGIONS, self_all_regions,
                   self_enabled_regions, discoveries, calls>>

\* line 26
AllCached(t) ==
    /\ thread[t].at = "all_cached"
    /\ GetAllReturns(t, self_all_regions)
    /\ UNCHANGED <<beside_regions, ENABLED_REGIONS, self_all_regions,
                   self_enabled_regions, discoveries, calls>>

\* lines 30-34
AllDiscover(t) ==
    /\ thread[t].at = "all_discover"
    /\ \E o \in DiscoveryOutcomes :
         thread' = [thread EXCEPT ![t].at = "all_store", ![t].outcome = o,
                                  ![t].discovered = @ + 1]
    /\ discoveries' = discoveries + 1
    /\ UNCHANGED <<beside_regions, ENABLED_REGIONS, self_all_regions,
                   self_enabled_regions, calls>>

\* The fallback list is handed back without being kept.
AllStoreFallbackNotCached(t) ==
    /\ thread[t].at = "all_store"
    /\ LET l == AllRegionsFrom(thread[t].outcome) IN
         IF l = <<AWS_DEFAULT_REGION>>
         THEN /\ GetAllReturns(t, Some(l))
              /\ UNCHANGED self_all_regions
         ELSE /\ self_all_regions' = Some(l)
              /\ thread' = [thread EXCEPT ![t].at = "all_return"]
    /\ UNCHANGED <<beside_regions, ENABLED_REGIONS, self_enabled_regions,
                   discoveries, calls>>

\* The list is built in place: the attribute is first set to the empty list.
AllStoreInPlace(t) ==
    /\ thread[t].at = "all_store"
    /\ \/ /\ self_all_regions' = Some(<<>>)
          /\ UNCHANGED thread
       \/ /\ self_all_regions' = Some(AllRegionsFrom(thread[t].outcome))
          /\ thread' = [thread EXCEPT ![t].at = "all_return"]
    /\ UNCHANGED <<beside_regions, ENABLED_REGIONS, self_enabled_regions,
                   discoveries, calls>>

\* lines 37, 42, 47: one assignment of a complete list
AllStore(t) ==
    /\ thread[t].at = "all_store"
    /\ self_all_regions' = Some(AllRegionsFrom(thread[t].outcome))
    /\ thread' = [thread EXCEPT ![t].at =
            IF Discovered(thread[t].outcome) THEN "all_log" ELSE "all_return"]
    /\ UNCHANGED <<beside_regions, ENABLED_REGIONS, self_enabled_regions,
                   discoveries, calls>>

\* line 38: len reads the attribute again; on None it raises TypeError inside
\* the try, and the except of line 45 goes on to store the fallback
AllLog(t) ==
    /\ thread[t].at = "all_log"
    /\ thread' = [thread EXCEPT ![t] =
            IF IsNone(self_all_regions)
            THEN [@ EXCEPT !.at = "all_store",
                           !.outcome = [raises |-> "len", response |-> None_]]
            ELSE [@ EXCEPT !.at = "all_return"]]
    /\ UNCHANGED <<beside_regions, ENABLED_REGIONS, self_all_regions,
                   self_enabled_regions, discoveries, calls>>

\* lines 39, 43, 48: the attribute is read again
AllReturn(t) ==
    /\ thread[t].at = "all_return"
    /\ GetAllReturns(t, self_all_regions)
    /\ UNCHANGED <<beside_regions, ENABLED_REGIONS, self_all_regions,
                   self_enabled_regions, discoveries, calls>>

\* line 57
EnabledCheck(t) ==
    /\ thread[t].at = "enabled_check"
    /\ thread' = [thread EXCEPT ![t].at =
            IF IsNone(self_enabled_regions) THEN "enabled_branch" ELSE "enabled_cached"]
    /\ UNCHANGED <<beside_regions, ENABLED_REGIONS, self_all_regions,
                   self_enabled_regions, discoveries, calls>>

\* line 58
EnabledCached(t) ==
    /\ thread[t].at = "enabled_cached"
    /\ thread' = [thread EXCEPT ![t].at = "done", ![t].returned = self_enabled_regions]
    /\ UNCHANGED <<beside_regions, ENABLED_REGIONS, self_all_regions,
                   self_enabled_regions, discoveries, calls>>

\* The allow-list is not consulted.
EnabledBranchAlwaysAll(t) ==
    /\ thread[t].at = "enabled_branch"
    /\ thread' = [thread EXCEPT ![t].at = "all_check"]
    /\ UNCHANGED <<beside_regions, ENABLED_REGIONS, self_all_regions,
                   self_enabled_regions, discoveries, calls>>

\* lines 61-62, or the call of line 68
EnabledBranch(t) ==
    /\ thread[t].at = "enabled_branch"
    /\ IF ENABLED_REGIONS # <<>>
       THEN /\ self_enabled_regions' = Some(ENABLED_REGIONS)
            /\ thread' = [thread EXCEPT ![t].at = "enabled_log"]
       ELSE /\ thread' = [thread EXCEPT ![t].at = "all_check"]
            /\ UNCHANGED self_enabled_regions
    /\ UNCHANGED <<beside_regions, ENABLED_REGIONS, self_all_regions,
                   discoveries, calls>>

\* line 68: the assignment of what get_all_regions returned
EnabledStore(t) ==
    /\ thread[t].at = "enabled_store"
    /\ self_enabled_regions' = thread[t].value
    /\ thread' = [thread EXCEPT ![t].at = "enabled_log"]
    /\ UNCHANGED <<beside_regions, ENABLED_REGIONS, self_all_regions,
                   discoveries, calls>>

\* lines 63-65, 69-71: join and len read the attribute again, and raise
\* TypeError on None
EnabledLog(t) ==
    /\ thread[t].at = "enabled_log"
    /\ thread' = [thread EXCEPT ![t] =
            IF IsNone(self_enabled_regions)
            THEN [@ EXCEPT !.at = "done", !.returned = TypeError]
            ELSE [@ EXCEPT !.at = "enabled_return"]]
    /\ UNCHANGED <<beside_regions, ENABLED_REGIONS, self_all_regions,
                   self_enabled_regions, discoveries, calls>>

\* line 73
EnabledReturn(t) ==
    /\ thread[t].at = "enabled_return"
    /\ thread' = [thread EXCEPT ![t].at = "done", ![t].returned = self_enabled_regions]
    /\ UNCHANGED <<beside_regions, ENABLED_REGIONS, self_all_regions,
                   self_enabled_regions, discoveries, calls>>

\* lines 97-103: "r in all_regions" raises TypeError when all_regions is None
\* and there is a candidate to test
Filter(t) ==
    /\ thread[t].at = "filter"
    /\ thread' = [thread EXCEPT ![t].at = "done", ![t].returned =
            IF IsNone(thread[t].value)
            THEN IF thread[t].arg = <<>> THEN Some(<<>>) ELSE TypeError
            ELSE Some(valid_regions(thread[t].arg, thread[t].value.list))]
    /\ UNCHANGED <<beside_regions, ENABLED_REGIONS, self_all_regions,
                   self_enabled_regions, discoveries, calls>>

\* line 139
ClearAll(t) ==
    /\ thread[t].at = "clear_all"
    /\ self_all_regions' = None_
    /\ discoveries' = 0
    /\ thread' = [thread EXCEPT ![t].at = "clear_enabled"]
    /\ UNCHANGED <<beside_regions, ENABLED_REGIONS, self_enabled_regions, calls>>

\* lines 140-141
ClearEnabled(t) ==
    /\ thread[t].at = "clear_enabled"
    /\ self_enabled_regions' = None_
    /\ thread' = [thread EXCEPT ![t].at = "done"]
    /\ UNCHANGED <<beside_regions, ENABLED_REGIONS, self_all_regions,
                   discoveries, calls>>

\* One thread calls the methods one after the other.
RegionInit ==
    FetchUnused /\ RegionInitWith(1) /\ CostExplorerUnused /\ AllResourcesUnused
    /\ SafeApiCallUnused

RegionNext ==
    \/ \E t \in Threads : RegionCall(t, Operations)
    \/ \E t \in Threads : AllCheck(t)
    \/ \E t \in Threads : AllCached(t)
    \/ \E t \in Threads : AllDiscover(t)
    \/ \E t \in Threads : AllStore(t)
    \/ \E t \in Threads : AllLog(t)
    \/ \E t \in Threads : AllReturn(t)
    \/ \E t \in Threads : EnabledCheck(t)
    \/ \E t \in Threads : EnabledCached(t)
    \/ \E t \in Threads : EnabledBranch(t)
    \/ \E t \in Threads : EnabledStore(t)
    \/ \E t \in Threads : EnabledLog(t)
    \/ \E t \in Threads : EnabledReturn(t)
    \/ \E t \in Threads : Filter(t)
    \/ \E t \in Threads : ClearAll(t)
    \/ \E t \in Threads : ClearEnabled(t)

RegionSpec == RegionInit /\ [][RegionNext]_vars

\* Two threads call the getters on the shared singleton, with no lock.
RaceInit ==
    FetchUnused /\ RegionInitWith(2) /\ CostExplorerUnused /\ AllResourcesUnused
    /\ SafeApiCallUnused

\* Each thread makes one call: the two calls meet on the cold cache.
RaceNext ==
    \/ \E t \in Threads : thread[t].at = "idle" /\ RegionCall(t, Getters)
    \/ \E t \in Threads : AllCheck(t)
    \/ \E t \in Threads : AllCached(t)
    \/ \E t \in Threads : AllDiscover(t)
    \/ \E t \in Threads : AllStore(t)
    \/ \E t \in Threads : AllLog(t)
    \/ \E t \in Threads : AllReturn(t)
    \/ \E t \in Threads : EnabledCheck(t)
    \/ \E t \in Threads : EnabledCached(t)
    \/ \E t \in Threads : EnabledBranch(t)
    \/ \E t \in Threads : EnabledStore(t)
    \/ \E t \in Threads : EnabledLog(t)
    \/ \E t \in Threads : EnabledReturn(t)

RaceSpec == RaceInit /\ [][RaceNext]_vars

\* One thread calls the getters while another calls clear_cache on the shared
\* singleton, with no lock.
InvalidateInit ==
    FetchUnused /\ RegionInitWith(2) /\ CostExplorerUnused /\ AllResourcesUnused
    /\ SafeApiCallUnused

InvalidateNext ==
    \/ RegionCall(1, Getters)
    \/ RegionCall(2, {"clear_cache"})
    \/ \E t \in Threads : AllCheck(t)
    \/ \E t \in Threads : AllCached(t)
    \/ \E t \in Threads : AllDiscover(t)
    \/ \E t \in Threads : AllStore(t)
    \/ \E t \in Threads : AllLog(t)
    \/ \E t \in Threads : AllReturn(t)
    \/ \E t \in Threads : EnabledCheck(t)
    \/ \E t \in Threads : EnabledCached(t)
    \/ \E t \in Threads : EnabledBranch(t)
    \/ \E t \in Threads : EnabledStore(t)
    \/ \E t \in Threads : EnabledLog(t)
    \/ \E t \in Threads : EnabledReturn(t)
    \/ \E t \in Threads : ClearAll(t)
    \/ \E t \in Threads : ClearEnabled(t)

InvalidateSpec == InvalidateInit /\ [][InvalidateNext]_vars

\* ---------------------------------------------------------------------------
\* CostExplorerClient (aws_clients/cost_explorer_client.py)
\* ---------------------------------------------------------------------------

FirstYear == 2023
LastYear == 2026

\* The years "today" is drawn from: a few recent ones, and the century years.
Years == (FirstYear..LastYear) \cup {1900, 2000, 2100}

\* datetime.date arithmetic in the proleptic Gregorian calendar.
IsLeap(y) == y % 4 = 0 /\ (y % 100 # 0 \/ y % 400 = 0)

DAYS_IN_MONTH == <<31, 28, 31, 30, 31, 30, 31, 31, 30, 31, 30, 31>>

DaysInMonthOf(y, m) == IF m = 2 /\ IsLeap(y) THEN 29 ELSE DAYS_IN_MONTH[m]

Date(y, m, d) == [year |-> y, month |-> m, day |-> d]

\* The date that lies day days after the last day of the month before month
\* m of year y, for any integer day.
RECURSIVE DateFrom(_, _, _)
DateFrom(y, m, day) ==
    IF day < 1
    THEN LET py == IF m = 1 THEN y - 1 ELSE y
             pm == IF m = 1 THEN 12 ELSE m - 1
         IN  DateFrom(py, pm, day + DaysInMonthOf(py, pm))
    ELSE IF day > DaysInMonthOf(y, m)
         THEN DateFrom(IF m = 12 THEN y + 1 ELSE y, IF m = 12 THEN 1 ELSE m + 1,
                       day - DaysInMonthOf(y, m))
         ELSE Date(y, m, day)

\* d + timedelta(days=k)
AddDays(d, k) == DateFrom(d.year, d.month, d.day + k)

\* The month is left 28 days after its first day.
MonthEndDate28(month_start) ==
    AddDays([AddDays(month_start, 28) EXCEPT !.day = 1], -1)

\* line 38: (month_start + timedelta(days=32)).replace(day=1) - timedelta(days=1)
MonthEndDate(month_start) ==
    AddDays([AddDays(month_start, 32) EXCEPT !.day = 1], -1)

Dates == {Date(y, m, k) : y \in Years, m \in 1..12, k \in 1..31}

ValidDates == {d \in Dates : d.day <= DaysInMonthOf(d.year, d.month)}

\* x * k and x / k on exact amounts
Times(x, k) == [num |-> x.num * k, den |-> x.den]
Over(x, k) == [num |-> x.num, den |-> x.den * k]

\* round(x, 2), in cents.  The float nearest to a decimal tie x.xx5 lies just
\* above or just below it, so a tie goes to either neighbour: up tells which.
round2(x, up) ==
    LET n == 100 * x.num
        q == n \div x.den
        r == n % x.den
    IN  IF 2 * r < x.den THEN q
        ELSE IF 2 * r > x.den THEN q + 1
        ELSE IF up THEN q + 1 ELSE q

\* line 62
DailyAverage(mtd, days_elapsed) ==
    IF days_elapsed > 0 THEN Over(mtd, days_elapsed) ELSE Mills(0)

\* The projection is made from the average as it is reported.
ProjectedFromReported(daily_average, days_in_month) ==
    [num |-> round2(daily_average, FALSE) * days_in_month, den |-> 100]

\* line 63
ProjectedEom(daily_average, days_in_month) == Times(daily_average, days_in_month)

\* The amounts, in thousandths of a dollar, the period totals are drawn from.
PeriodMills == {0, 5, 115, 1000, 62000, 123456, -1500}
YesterdayMills == {0, 2345}

SnapshotFields == {"mtd_cost", "projected_eom_cost", "daily_average", "yesterday_cost"}

MaxGroups == 4

\* The service labels and the amounts, in thousandths of a dollar, of the
\* groups of a response.
Labels == {"A", "B", "C"}
GroupMills == {4, 1000, 4000, 20000}

Group(l, a) == [Keys |-> <<l>>, Metrics |-> [UnblendedCost |-> [Amount |-> a]]]

Groups == {Group(l, a) : l \in Labels, a \in GroupMills}

\* A response whose groups g lie in one time bucket (split = Len(g)) or are
\* spread over two, the first split of them in the first.
ResponseOf(g, split) ==
    [ResultsByTime |->
        IF split = Len(g)
        THEN <<[Groups |-> g]>>
        ELSE <<[Groups |-> SubSeq(g, 1, split)], [Groups |-> SubSeq(g, split + 1, Len(g))]>>]

\* lines 200-201: the groups in the order the two loops visit them
RECURSIVE GroupsOf(_)
GroupsOf(results_by_time) ==
    IF results_by_time = <<>> THEN <<>>
    ELSE Head(results_by_time).Groups \o GroupsOf(Tail(results_by_time))

\* The total of a label is the amount of its latest group.
AccumulateOverwrite(service_totals, service_name, cost) ==
    DictSet(service_totals, service_name, cost)

\* lines 206-209
Accumulate(service_totals, service_name, cost) ==
    IF DictHas(service_totals, service_name)
    THEN DictSet(service_totals, service_name, DictGet(service_totals, service_name) + cost)
    ELSE DictSet(service_totals, service_name, cost)

\* lines 199-209
RECURSIVE ServiceTotals(_, _)
ServiceTotals(gs, service_totals) ==
    IF gs = <<>> THEN service_totals
    ELSE ServiceTotals(Tail(gs),
            Accumulate(service_totals, Head(gs).Keys[1],
                       Head(gs).Metrics.UnblendedCost.Amount))

\* lines 212-216
ServiceEntries(service_totals, up) ==
    [i \in 1..Len(service_totals) |->
        [service |-> service_totals[i][1],
         cost |-> round2(Mills(service_totals[i][2]), up)]]

\* list.sort is stable, also with reverse=True: an entry goes behind every
\* entry of at least its cost.
InsertByCost(sorted, e) ==
    LET k == Cardinality({i \in 1..Len(sorted) : sorted[i].cost >= e.cost}) IN
    SubSeq(sorted, 1, k) \o <<e>> \o SubSeq(sorted, k + 1, Len(sorted))

\* line 218
RECURSIVE SortByCost(_, _)
SortByCost(entries, sorted) ==
    IF entries = <<>> THEN sorted
    ELSE SortByCost(Tail(entries), InsertByCost(sorted, Head(entries)))

CostInit ==
    /\ FetchUnused
    /\ AllResourcesUnused
    /\ SafeApiCallUnused
    /\ RegionManagerUnused
    /\ today \in ValidDates
    /\ mtd_cost \in {Mills(a) : a \in PeriodMills}
    /\ yesterday_cost \in {Mills(a) : a \in YesterdayMills}
    /\ subcall = AllAnswer
    /\ daily_response = NoResponse
    /\ snapshot = NoSnapshot
    /\ ce_response = NoResponse
    /\ service_costs = None_

\* How a billing sub-call goes: it gets its answer and reads it, safe_api_call
\* returns None, the response has no 'ResultsByTime', or reading the response
\* raises (an amount that float() rejects, for one).
SubCallBehaviours == {"ok", "none", "no_results", "raises"}

\* An exception keeps the total read so far.
CostForPeriodKeepsTotal(b, total) ==
    IF b \in {"ok", "raises"} THEN total ELSE Mills(0)

\* lines 103-126, for a period whose billing total is total
CostForPeriod(b, total) ==
    IF b = "ok" THEN total ELSE Mills(0)

HasResults(resp) == "ResultsByTime" \in DOMAIN resp

\* lines 152-162
DailyEntries(results_by_time, up) ==
    [i \in 1..Len(results_by_time) |->
        [date |-> results_by_time[i].TimePeriod.Start,
         cost |-> round2(Mills(results_by_time[i].Total.UnblendedCost.Amount), up)]]

\* lines 138-166
DailyCosts(b, resp, up) ==
    IF b = "ok" /\ HasResults(resp) THEN DailyEntries(resp.ResultsByTime, up) ELSE <<>>

\* lines 178-224
ServiceBreakdown(b, resp, up) ==
    IF b = "ok" /\ HasResults(resp)
    THEN SortByCost(ServiceEntries(ServiceTotals(GroupsOf(resp.ResultsByTime), <<>>), up), <<>>)
    ELSE <<>>

RoundedFields == SnapshotFields \cup {"daily_costs", "service_costs"}

\* lines 36-87
\* lines 62-63 on the last day of an n-day month: where (x / n) * n, computed
\* in binary64 from the float of amount x, falls with respect to that float.
LastDayProduct(x, n) ==
    CASE x = Mills(115) /\ n = 28 -> "below"
      [] x = Mills(62000) /\ n = 29 -> "below"
      [] x = Mills(62000) /\ n = 30 -> "above"
      [] x = Mills(123456) /\ n = 29 -> "above"
      [] x = Mills(123456) /\ n = 30 -> "below"
      [] OTHER -> "exact"

GetCostAndUsage ==
    /\ snapshot = NoSnapshot
    /\ LET month_start == [today EXCEPT !.day = 1]
           month_end_date == MonthEndDate(month_start)
           days_in_month == month_end_date.day
           days_elapsed == today.day
           mtd == CostForPeriod(subcall.mtd, mtd_cost)
           daily_average == DailyAverage(mtd, days_elapsed)
           projected_eom == ProjectedEom(daily_average, days_in_month)
           yesterday == CostForPeriod(subcall.yesterday, yesterday_cost)
       IN  \E up \in [RoundedFields -> BOOLEAN] :
             \* on the last day the projection is the total itself, up to
             \* the error of the division and the multiplication
             /\ days_elapsed = days_in_month =>
                   up.projected_eom_cost =
                       CASE LastDayProduct(mtd, days_in_month) = "below" -> FALSE
                         [] LastDayProduct(mtd, days_in_month) = "above" -> TRUE
                         [] OTHER -> up.mtd_cost
             /\ snapshot' =
                [mtd_cost |-> round2(mtd, up.mtd_cost),
                 projected_eom_cost |-> round2(projected_eom, up.projected_eom_cost),
                 daily_average |-> round2(daily_average, up.daily_average),
                 yesterday_cost |-> round2(yesterday, up.yesterday_cost),
                 daily_costs |-> DailyCosts(subcall.daily, daily_response, up.daily_costs),
                 service_costs |-> ServiceBreakdown(subcall.services, ce_response,
                                                    up.service_costs),
                 metadata |-> [month_start |-> month_start,
                               today |-> today,
                               days_elapsed |-> days_elapsed,
                               days_in_month |-> days_in_month]]
    /\ UNCHANGED <<beside_cost, today, mtd_cost, yesterday_cost, subcall, daily_response,
                   ce_response, service_costs>>

CostNext == GetCostAndUsage

CostSpec == CostInit /\ [][CostNext]_vars

\* The dates, the DAILY response and the grouped response of the calls in which
\* sub-calls fail.
DegradeDates == {Date(2024, 2, 29), Date(2024, 4, 10), Date(2025, 12, 1)}

DailyResult(start, a) ==
    [TimePeriod |-> [Start |-> start], Total |-> [UnblendedCost |-> [Amount |-> a]]]

DailySeries == [ResultsByTime |-> <<DailyResult("day-1", 1234), DailyResult("day-2", 5)>>]

GroupedSeries == ResponseOf(<<Group("A", 1000), Group("B", 4000), Group("A", 4)>>, 2)

DegradeInit ==
    /\ FetchUnused
    /\ AllResourcesUnused
    /\ SafeApiCallUnused
    /\ RegionManagerUnused
    /\ today \in DegradeDates
    /\ mtd_cost \in {Mills(a) : a \in PeriodMills}
    /\ yesterday_cost \in {Mills(a) : a \in YesterdayMills}
    /\ subcall \in [SubCalls -> SubCallBehaviours]
    /\ daily_response = DailySeries
    /\ ce_response = GroupedSeries
    /\ snapshot = NoSnapshot
    /\ service_costs = None_

DegradeSpec == DegradeInit /\ [][CostNext]_vars

BreakdownInit ==
    /\ FetchUnused
    /\ AllResourcesUnused
    /\ SafeApiCallUnused
    /\ RegionManagerUnused
    /\ today = [year |-> 1, month |-> 1, day |-> 1]
    /\ mtd_cost = Mills(0)
    /\ yesterday_cost = Mills(0)
    /\ subcall = AllAnswer
    /\ daily_response = NoResponse
    /\ snapshot = NoSnapshot
    /\ \E g \in SeqsUpTo(Groups, MaxGroups) : \E split \in 0..Len(g) :
          ce_response = ResponseOf(g, split)
    /\ service_costs = None_

\* lines 196-220, for a response that has 'ResultsByTime'
GetServiceBreakdown ==
    /\ IsNone(service_costs)
    /\ \E up \in BOOLEAN :
          service_costs' =
              Some(SortByCost(
                      ServiceEntries(ServiceTotals(GroupsOf(ce_response.ResultsByTime), <<>>), up),
                      <<>>))
    /\ UNCHANGED <<beside_cost, today, mtd_cost, yesterday_cost, subcall, daily_response,
                   snapshot, ce_response>>

BreakdownNext == GetServiceBreakdown

BreakdownSpec == BreakdownInit /\ [][BreakdownNext]_vars

\* ---------------------------------------------------------------------------
\* ResourceAggregator.fetch_all_resources (services/resource_aggregator.py)
\* ---------------------------------------------------------------------------

MaxQueried == 2

\* What the three regional providers do in one region.
RegionProfiles ==
    {[ec2 |-> "ok", glue |-> "ok", sagemaker |-> "ok"],
     [ec2 |-> "client_raises", glue |-> "ok", sagemaker |-> "ok"],
     [ec2 |-> "ok", glue |-> "AccessDenied", sagemaker |-> "Throttling"],
     [ec2 |-> "no_credentials", glue |-> "no_credentials", sagemaker |-> "no_credentials"]}

\* S3Client() raises, list_buckets gets no response, parsing a bucket raises
\* inside get_buckets, or all goes well.
S3Behaviours == {"ok", "no_credentials", "no_response", "parse_raises"}

S3Summary(n) == [total |-> n, total_size_bytes |-> 0, total_size_gb |-> 0]

\* S3Client._empty_response
S3EmptyResponse ==
    [buckets |-> <<>>, summary |-> S3Summary(0), region |-> AWS_DEFAULT_REGION]

\* S3Client.get_buckets: two empty buckets when all goes well
S3GetBuckets(b) ==
    IF b = "ok"
    THEN [buckets |-> <<[name |-> "bucket-1", size_bytes |-> 0],
                        [name |-> "bucket-2", size_bytes |-> 0]>>,
          summary |-> S3Summary(2), region |-> AWS_DEFAULT_REGION]
    ELSE S3EmptyResponse

\* lines 119-141
fetch_s3_resources(b) ==
    IF b = "no_credentials"
    THEN [buckets |-> <<>>, summary |-> S3Summary(0), error |-> "Unable to locate credentials"]
    ELSE S3GetBuckets(b)

\* The orders in which the futures of one fetch_from_regions call can complete:
\* with MAX_PARALLEL_WORKERS workers all of them run at once.
CompletionOrders ==
    {o \in [1..Len(queried) -> 1..Len(queried)] :
        \A i, j \in 1..Len(queried) : o[i] = o[j] => i = j}

\* One entry is kept for every future instead of one for every region.
RECURSIVE ResultsFromPerFuture(_, _, _)
ResultsFromPerFuture(svc, o, res) ==
    IF o = <<>> THEN res
    ELSE LET region == queried[Head(o)] IN
         ResultsFromPerFuture(svc, Tail(o),
             Append(res, <<region, ResultEntry(FetchFunction(svc, region, profile[region][svc]),
                                               region, API_TIMEOUT)>>))

\* The results dict of fetch_from_regions when the futures complete in order o.
RECURSIVE ResultsFrom(_, _, _)
ResultsFrom(svc, o, res) ==
    IF o = <<>> THEN res
    ELSE LET region == queried[Head(o)] IN
         ResultsFrom(svc, Tail(o),
                     Recorded(res, region, FetchFunction(svc, region, profile[region][svc])))

\* What fetch_<svc>_resources(regions) can return.
RegionalAggregates(svc) ==
    {AggregateOf(svc, ResultsFrom(svc, o, <<>>)) : o \in CompletionOrders}

FetchAllInit ==
    /\ FetchUnused
    /\ RegionManagerUnused
    /\ CostExplorerUnused
    /\ SafeApiCallUnused
    /\ queried \in SeqsUpTo(Regions, MaxQueried)
    /\ profile \in [Range(queried) -> RegionProfiles]
    /\ s3_behaviour \in S3Behaviours
    /\ fa_pc = "idle"
    /\ resources = NoResources
    /\ s3_fetches = [clients |-> 0, get_buckets |-> 0]
    /\ summary = NoSummary

\* line 37
FetchAllEC2 ==
    /\ fa_pc = "idle"
    /\ \E a \in RegionalAggregates("ec2") : resources' = [resources EXCEPT !.ec2 = a]
    /\ fa_pc' = "ec2"
    /\ UNCHANGED <<beside_all, summary, queried, profile, s3_behaviour, s3_fetches>>

\* One S3 fetch is made for each region queried.
FetchAllS3PerRegion ==
    /\ fa_pc = "ec2"
    /\ resources' = [resources EXCEPT !.s3 = fetch_s3_resources(s3_behaviour)]
    /\ s3_fetches' = [clients |-> s3_fetches.clients + Len(queried),
                      get_buckets |-> s3_fetches.get_buckets + Len(queried)]
    /\ fa_pc' = "s3"
    /\ UNCHANGED <<beside_all, summary, queried, profile, s3_behaviour>>

\* line 38: fetch_s3_resources(), lines 111-141
FetchAllS3 ==
    /\ fa_pc = "ec2"
    /\ resources' = [resources EXCEPT !.s3 = fetch_s3_resources(s3_behaviour)]
    /\ s3_fetches' =
          [clients |-> s3_fetches.clients + 1,
           get_buckets |-> s3_fetches.get_buckets +
                               (IF s3_behaviour = "no_credentials" THEN 0 ELSE 1)]
    /\ fa_pc' = "s3"
    /\ UNCHANGED <<beside_all, summary, queried, profile, s3_behaviour>>

\* line 39
FetchAllGlue ==
    /\ fa_pc = "s3"
    /\ \E a \in RegionalAggregates("glue") : resources' = [resources EXCEPT !.glue = a]
    /\ fa_pc' = "glue"
    /\ UNCHANGED <<beside_all, summary, queried, profile, s3_behaviour, s3_fetches>>

\* line 40
FetchAllSageMaker ==
    /\ fa_pc = "glue"
    /\ \E a \in RegionalAggregates("sagemaker") :
          resources' = [resources EXCEPT !.sagemaker = a]
    /\ fa_pc' = "sagemaker"
    /\ UNCHANGED <<beside_all, summary, queried, profile, s3_behaviour, s3_fetches>>

\* lines 41-45
FetchAllReturn ==
    /\ fa_pc = "sagemaker"
    /\ resources' = [resources EXCEPT !.regions_queried = queried,
                                      !.total_regions = Len(queried)]
    /\ fa_pc' = "returned"
    /\ UNCHANGED <<beside_all, summary, queried, profile, s3_behaviour, s3_fetches>>

FetchAllNext ==
    \/ FetchAllEC2
    \/ FetchAllS3
    \/ FetchAllGlue
    \/ FetchAllSageMaker
    \/ FetchAllReturn

FetchAllSpec == FetchAllInit /\ [][FetchAllNext]_vars

\* ---------------------------------------------------------------------------
\* ResourceAggregator.get_resource_summary (services/resource_aggregator.py)
\* ---------------------------------------------------------------------------

\* The counters get_resource_summary reads from each service's 'summary'.
SummaryCounters(svc) ==
    CASE svc = "ec2" -> {"total", "running", "stopped"}
      [] svc = "s3" -> {"total", "total_size_gb"}
      [] svc = "glue" -> {"total_databases", "total_tables"}
      [] svc = "sagemaker" -> {"total_notebooks", "active_notebooks", "total_endpoints"}

SummaryServices == {"ec2", "s3", "glue", "sagemaker"}

\* A different value for every counter of an input, none of them 0.
CounterValue(svc, k) ==
    (CASE svc = "ec2" -> 10 [] svc = "s3" -> 20 [] svc = "glue" -> 30
       [] svc = "sagemaker" -> 40)
    + (CASE k \in {"total", "total_databases", "total_notebooks"} -> 1
         [] k \in {"running", "total_size_gb", "total_tables", "active_notebooks"} -> 2
         [] OTHER -> 3)

\* The values resources[svc] takes in the inputs: a mapping without 'summary',
\* or one whose 'summary' holds any subset of the counters.
ServiceInputs(svc) ==
    {[error |-> "failed"]}
    \cup {[summary |-> [k \in present |-> CounterValue(svc, k)]] :
             present \in SUBSET SummaryCounters(svc)}

\* The resources mappings: any subset of the service keys and of
\* 'total_regions' is present.
ResourcesInputs ==
    {[k \in present |-> full[k]] :
        full \in {[ec2 |-> e, s3 |-> b, glue |-> g, sagemaker |-> m, total_regions |-> 2] :
                     e \in ServiceInputs("ec2"), b \in ServiceInputs("s3"),
                     g \in ServiceInputs("glue"), m \in ServiceInputs("sagemaker")},
        present \in SUBSET (SummaryServices \cup {"total_regions"})}

\* get_resource_summary with stopped_instances read from the running counter.
get_resource_summary_stopped_from_running(res) ==
    LET ec2_summary == Get(Get(res, "ec2", EmptyDict), "summary", EmptyDict)
        s3_summary == Get(Get(res, "s3", EmptyDict), "summary", EmptyDict)
        glue_summary == Get(Get(res, "glue", EmptyDict), "summary", EmptyDict)
        sagemaker_summary == Get(Get(res, "sagemaker", EmptyDict), "summary", EmptyDict)
    IN  [ec2 |-> [total_instances |-> Get(ec2_summary, "total", 0),
                  running_instances |-> Get(ec2_summary, "running", 0),
                  stopped_instances |-> Get(ec2_summary, "running", 0)],
         s3 |-> [total_buckets |-> Get(s3_summary, "total", 0),
                 total_size_gb |-> Get(s3_summary, "total_size_gb", 0)],
         glue |-> [total_databases |-> Get(glue_summary, "total_databases", 0),
                   total_tables |-> Get(glue_summary, "total_tables", 0)],
         sagemaker |-> [total_notebooks |-> Get(sagemaker_summary, "total_notebooks", 0),
                        active_notebooks |-> Get(sagemaker_summary, "active_notebooks", 0),
                        total_endpoints |-> Get(sagemaker_summary, "total_endpoints", 0)],
         regions |-> [queried |-> Get(res, "total_regions", 0)]]

\* lines 278-305
get_resource_summary(res) ==
    LET ec2_summary == Get(Get(res, "ec2", EmptyDict), "summary", EmptyDict)
        s3_summary == Get(Get(res, "s3", EmptyDict), "summary", EmptyDict)
        glue_summary == Get(Get(res, "glue", EmptyDict), "summary", EmptyDict)
        sagemaker_summary == Get(Get(res, "sagemaker", EmptyDict), "summary", EmptyDict)
    IN  [ec2 |-> [total_instances |-> Get(ec2_summary, "total", 0),
                  running_instances |-> Get(ec2_summary, "running", 0),
                  stopped_instances |-> Get(ec2_summary, "stopped", 0)],
         s3 |-> [total_buckets |-> Get(s3_summary, "total", 0),
                 total_size_gb |-> Get(s3_summary, "total_size_gb", 0)],
         glue |-> [total_databases |-> Get(glue_summary, "total_databases", 0),
                   total_tables |-> Get(glue_summary, "total_tables", 0)],
         sagemaker |-> [total_notebooks |-> Get(sagemaker_summary, "total_notebooks", 0),
                        active_notebooks |-> Get(sagemaker_summary, "active_notebooks", 0),
                        total_endpoints |-> Get(sagemaker_summary, "total_endpoints", 0)],
         regions |-> [queried |-> Get(res, "total_regions", 0)]]

SummaryInit ==
    /\ FetchUnused
    /\ RegionManagerUnused
    /\ CostExplorerUnused
    /\ SafeApiCallUnused
    /\ queried = <<>>
    /\ profile = <<>>
    /\ s3_behaviour = "ok"
    /\ fa_pc = "returned"
    /\ resources \in ResourcesInputs
    /\ s3_fetches = [clients |-> 0, get_buckets |-> 0]
    /\ summary = NoSummary

GetResourceSummary ==
    /\ fa_pc = "returned"
    /\ summary' = get_resource_summary(resources)
    /\ fa_pc' = "summarised"
    /\ UNCHANGED <<beside_all, queried, profile, s3_behaviour, resources, s3_fetches>>

SummaryNext == GetResourceSummary

SummarySpec == SummaryInit /\ [][SummaryNext]_vars

\* ---------------------------------------------------------------------------
\* BaseAWSClient.safe_api_call, one step per attempt (aws_clients/base_client.py)
\* ---------------------------------------------------------------------------

MaxRetriesArg == 3

\* What one invocation of func can do: return a response, raise a ClientError
\* with one of these codes (its response carries ['Error']['Code'] and
\* ['Error']['Message'], as the responses botocore parses do), or raise another
\* Exception.
OtherCodes == {"InternalError"}
AttemptOutcomes ==
    {"ok", "Exception"} \cup ThrottleCodes \cup PermissionCodes \cup OtherCodes

\* The response the invocation of attempt a returned.
AttemptResponse(a) == [response_of |-> a]

RetryInit ==
    /\ FetchUnused
    /\ RegionManagerUnused
    /\ CostExplorerUnused
    /\ AllResourcesUnused
    /\ retries \in 0..MaxRetriesArg
    /\ func_script \in [1..retries -> AttemptOutcomes]
    /\ attempt_no = 0
    /\ retry_pc = "loop"
    /\ invocations = 0
    /\ slept = <<>>
    /\ api_result = NoResult

\* The invocation of this attempt ends in one of the outcomes `outcomes`.
Invoked(outcomes) ==
    /\ retry_pc = "loop"
    /\ attempt_no < retries
    /\ func_script[attempt_no + 1] \in outcomes
    /\ invocations' = invocations + 1
    /\ UNCHANGED <<beside_retry, func_script, retries>>

\* time.sleep(2 ** attempt); continue, made whether or not attempts remain
SleepAlways ==
    /\ slept' = Append(slept, 2 ^ attempt_no)
    /\ attempt_no' = attempt_no + 1
    /\ retry_pc' = "loop"
    /\ UNCHANGED api_result

\* The error of the final attempt is raised again instead of None returned.
SleepOrRaise ==
    IF attempt_no < retries - 1
    THEN /\ slept' = Append(slept, 2 ^ attempt_no)
         /\ attempt_no' = attempt_no + 1
         /\ retry_pc' = "loop"
         /\ UNCHANGED api_result
    ELSE /\ retry_pc' = "raised"
         /\ api_result' = [raised |-> func_script[attempt_no + 1]]
         /\ UNCHANGED <<slept, attempt_no>>

\* if attempt < max_retries - 1: time.sleep(2 ** attempt); continue
\* else: return None
SleepOrGiveUp ==
    IF attempt_no < retries - 1
    THEN /\ slept' = Append(slept, 2 ^ attempt_no)
         /\ attempt_no' = attempt_no + 1
         /\ retry_pc' = "loop"
         /\ UNCHANGED api_result
    ELSE /\ retry_pc' = "returned"
         /\ api_result' = None_
         /\ UNCHANGED <<slept, attempt_no>>

\* lines 83-85
AttemptSucceeds ==
    /\ Invoked({"ok"})
    /\ retry_pc' = "returned"
    /\ api_result' = AttemptResponse(attempt_no)
    /\ UNCHANGED <<slept, attempt_no>>

\* lines 87-103
AttemptThrottled ==
    /\ Invoked(ThrottleCodes)
    /\ SleepOrGiveUp

\* A permission error is retried like any other client error.
AttemptDeniedRetried ==
    /\ Invoked(PermissionCodes)
    /\ SleepOrGiveUp

\* lines 87-89, 105-111
AttemptDenied ==
    /\ Invoked(PermissionCodes)
    /\ retry_pc' = "returned"
    /\ api_result' = None_
    /\ UNCHANGED <<slept, attempt_no>>

\* lines 87-89, 113-127
AttemptFailsOther ==
    /\ Invoked(OtherCodes)
    /\ SleepOrGiveUp

\* lines 129-140
AttemptRaises ==
    /\ Invoked({"Exception"})
    /\ SleepOrGiveUp

\* line 142: the loop ends without an attempt having returned
LoopExhausted ==
    /\ retry_pc = "loop"
    /\ attempt_no >= retries
    /\ retry_pc' = "returned"
    /\ api_result' = None_
    /\ UNCHANGED <<beside_retry, func_script, retries, attempt_no, invocations, slept>>

RetryNext ==
    \/ AttemptSucceeds
    \/ AttemptThrottled
    \/ AttemptDenied
    \/ AttemptFailsOther
    \/ AttemptRaises
    \/ LoopExhausted

RetrySpec == RetryInit /\ [][RetryNext]_vars

\* The interpreter keeps running the call until it returns or raises.
FairRetrySpec == RetrySpec /\ WF_vars(RetryNext)

\* ================================================================ claims
Returned_ == pc \in {"returned", "done"}

IsFailureFor(entry, region) ==
    /\ HasError(entry)
    /\ "region" \in DOMAIN entry
    /\ entry.region = region

HasDuplicates(s) == Cardinality(Range(s)) < Len(s)

\* C1 (totality): when fetch_from_regions returns for a non-empty regions
\* list, the keys of the returned mapping are exactly the regions passed in,
\* each key once, whatever each invocation did.
C1_Totality ==
    (Returned_ /\ regions # <<>>) =>
        /\ DictKeys(results) = Range(regions)
        /\ Len(results) = Cardinality(DictKeys(results))

\* A call over three futures, one region passed twice, one region raising, has returned.
C1_Witness ==
    /\ pc = "returned"
    /\ Len(regions) = 3
    /\ HasDuplicates(regions)
    /\ \E r \in Range(regions) : behaviour[r] = "raise"
    /\ \E r \in Range(regions) : behaviour[r] = "ok"

\* C2 (isolation): if fetch_function raises for exactly one region X and
\* returns for every other region, the returned mapping holds for every other
\* region exactly the payload fetch_function returned for it, and for X a
\* failure record with an 'error' message and 'region' = X.
C2_Isolation ==
    Returned_ =>
        \A X \in Range(regions) :
            (/\ behaviour[X] \in {"raise", "raise_timeout"}
             /\ \A r \in Range(regions) \ {X} : behaviour[r] \in {"ok", "slow"})
            => /\ \A r \in Range(regions) \ {X} :
                    DictHas(results, r) /\ DictGet(results, r) = RawPayload(r)
               /\ DictHas(results, X)
               /\ IsFailureFor(DictGet(results, X), X)

\* Three distinct regions, the first one raising, the others returning; returned.
C2_Witness ==
    /\ pc = "returned"
    /\ Len(regions) = 3
    /\ ~HasDuplicates(regions)
    /\ behaviour[regions[1]] = "raise"
    /\ \A k \in 2..3 : behaviour[regions[k]] = "ok"
    /\ DictGet(results, regions[3]) = RawPayload(regions[3])

\* C3 (no propagation): an error raised by fetch_function never leaves
\* fetch_from_regions, and when the call returns every submitted invocation
\* was started and ran to completion, also when every region raised.
C3_NoPropagation ==
    /\ pc # "raised"
    /\ Returned_ =>
          /\ \A i \in Futures : task[i] = "done" /\ future[i] # Pending
          /\ \A r \in Range(regions) : invoked[r] >= 1

\* Every region of a two-region call raised, and the call returned.
C3_Witness ==
    /\ pc = "returned"
    /\ Cardinality(Range(regions)) >= 2
    /\ \A r \in Range(regions) : behaviour[r] \in {"raise", "raise_timeout"}
    /\ \A i \in Futures : future[i].kind = "exception"

\* C4 (concurrency bound): in no state are more than max_workers invocations
\* of fetch_function active.
C4_ConcurrencyBound == Cardinality(Running) <= max_workers

\* Two workers are both busy while a third region waits in the queue.
C4_Witness ==
    /\ max_workers = 2
    /\ Cardinality(Running) = 2
    /\ \E i \in Futures : task[i] = "queued"

\* C5 (per-task timeout), as claimed: a region whose invocation was still
\* running when `timeout` seconds had elapsed is recorded in the returned
\* mapping as {'error': 'Timeout after <timeout>s', 'region': region}.
C5_TimeoutRecorded ==
    Returned_ =>
        \A i \in expired :
            /\ DictHas(results, future_to_region[i])
            /\ DictGet(results, future_to_region[i]) =
                  [error |-> TimeoutMessage(API_TIMEOUT), region |-> future_to_region[i]]

\* C6 (termination under a hung region), as claimed: fetch_from_regions
\* eventually returns, also when the invocation of some region never returns.
C6_EventuallyReturns == <>Returned_

\* ---- aggregates
SuccessfulRegions == Range(aggregate.successful_regions)
ErrorRegions == {aggregate.errors[k].region : k \in 1..Len(aggregate.errors)}
Occurrences(s, v) == Cardinality({k \in 1..Len(s) : s[k] = v})
ErrorOccurrences(r) == Cardinality({k \in 1..Len(aggregate.errors) : aggregate.errors[k].region = r})

\* Every queried region is in exactly one of successful_regions and errors, once.
Partitioned ==
    \A r \in Range(regions) :
        Occurrences(aggregate.successful_regions, r) + ErrorOccurrences(r) = 1

\* C7 (aggregate invariant), as claimed: for an aggregate built from a list
\* of N queried regions, len(successful_regions) + len(errors) == N and every
\* queried region is in exactly one of the two.
C7_CountIsListLength ==
    pc = "done" =>
        /\ Len(aggregate.successful_regions) + Len(aggregate.errors) = Len(regions)
        /\ Partitioned

\* C7, amended: len(successful_regions) + len(errors) equals the number of
\* DISTINCT queried regions (N when no region is listed twice), and every
\* queried region is in exactly one of the two, once.
C7_CountIsDistinctRegions ==
    pc = "done" =>
        /\ Len(aggregate.successful_regions) + Len(aggregate.errors)
              = Cardinality(Range(regions))
        /\ SuccessfulRegions \cup ErrorRegions = Range(regions)
        /\ Partitioned

\* A Glue aggregate of three distinct regions with a success and a failure.
C7_Witness ==
    /\ pc = "done"
    /\ service = "glue"
    /\ Len(regions) = 3
    /\ ~HasDuplicates(regions)
    /\ aggregate.errors # <<>>
    /\ aggregate.successful_regions # <<>>

\* C8 (permission errors become failures), as claimed: a region whose provider
\* call fails with a permission error appears exactly once in errors, not in
\* successful_regions, and the provider call is not retried.
C8_PermissionErrorSurfaced ==
    (pc = "done" /\ service \in {"glue", "sagemaker"}) =>
        \A i \in Futures :
            behaviour[future_to_region[i]] \in PermissionCodes =>
                /\ ErrorOccurrences(future_to_region[i]) = 1
                /\ future_to_region[i] \notin SuccessfulRegions
                /\ \A k \in 1..Len(api_calls[i]) : api_calls[i][k] = 1

\* ---- merge rule
SuccIdx == {k \in 1..Len(results) : ~HasError(results[k][2])}
FailIdx == {k \in 1..Len(results) : HasError(results[k][2])}

\* The number of items of list `field` the successful regions before position k hold.
ItemsBefore(k, field) ==
    SumOver({j \in SuccIdx : j < k}, [j \in SuccIdx |-> Len(results[j][2][field])])

\* items is the concatenation, in mapping order, of the successful regions' lists.
IsConcatenation(items, field) ==
    /\ Len(items) = SumOver(SuccIdx, [j \in SuccIdx |-> Len(results[j][2][field])])
    /\ \A k \in SuccIdx :
          \A m \in 1..Len(results[k][2][field]) :
              items[ItemsBefore(k, field) + m] = results[k][2][field][m]

\* value is the sum of the named counter over the successful regions.
IsCounterSum(value, name) ==
    value = SumOver(SuccIdx, [j \in SuccIdx |-> results[j][2].summary[name]])

\* errors holds one (region, message) entry per failed region, in mapping order.
ErrorsAreFailures ==
    /\ Len(aggregate.errors) = Cardinality(FailIdx)
    /\ \A k \in FailIdx :
          aggregate.errors[Cardinality({j \in FailIdx : j <= k})]
              = [region |-> results[k][1], error |-> results[k][2].error]

\* C9 (merge rule): the combined item list is the concatenation of the item
\* lists of exactly the successful regions, every named counter is the sum of
\* that counter over the successful regions, and each failed region
\* contributes one (region, message) entry to errors and nothing else.
C9_MergeRule ==
    pc = "done" =>
        /\ ErrorsAreFailures
        /\ Len(aggregate.successful_regions) = Cardinality(SuccIdx)
        /\ service = "ec2" =>
              /\ IsConcatenation(aggregate.instances, "instances")
              /\ aggregate.summary.total = Len(aggregate.instances)
              /\ IsCounterSum(aggregate.summary.running, "running")
              /\ IsCounterSum(aggregate.summary.stopped, "stopped")
              /\ IsCounterSum(aggregate.summary.terminated, "terminated")
        /\ service = "glue" =>
              /\ IsConcatenation(aggregate.databases, "databases")
              /\ IsCounterSum(aggregate.summary.total_databases, "total_databases")
              /\ IsCounterSum(aggregate.summary.total_tables, "total_tables")
        /\ service = "sagemaker" =>
              /\ IsConcatenation(aggregate.notebook_instances, "notebook_instances")
              /\ IsConcatenation(aggregate.endpoints, "endpoints")
              /\ IsConcatenation(aggregate.training_jobs, "training_jobs")
              /\ IsCounterSum(aggregate.summary.active_notebooks, "active_notebooks")
              /\ IsCounterSum(aggregate.summary.active_endpoints, "active_endpoints")

\* An EC2 aggregate of two successful regions (five instances) and one failed region.
C9_Witness ==
    /\ pc = "done"
    /\ service = "ec2"
    /\ Cardinality(SuccIdx) = 2
    /\ Cardinality(FailIdx) = 1
    /\ Len(aggregate.instances) = 5
    /\ aggregate.summary.running = 3
    /\ Len(aggregate.errors) = 1

\* C10 (empty input): with an empty regions list nothing is submitted,
\* fetch_function is never invoked, and the mapping returned is empty.
C10_EmptyInput ==
    regions = <<>> =>
        /\ future_to_region = <<>>
        /\ \A r \in Regions : invoked[r] = 0
        /\ results = <<>>
        /\ pc # "collecting"

\* The call with the empty list has returned.
C10_Witness == regions = <<>> /\ pc = "returned" /\ results = <<>>

\* C11 (the core never retries): within one fetch_from_regions call
\* fetch_function is invoked once for each entry of the regions list and never
\* again, whether that invocation returns, raises or outlasts the timeout: at
\* no time has a region more invocations than entries in the list, and at
\* return it has exactly that many.
C11_InvokedOncePerEntry ==
    /\ \A r \in Regions : invoked[r] <= Occurrences(regions, r)
    /\ Returned_ => \A r \in Regions : invoked[r] = Occurrences(regions, r)

\* A call with a raising region, a region that outlasted the timeout and a
\* region that returned has come back; each was invoked once.
C11_Witness ==
    /\ pc = "returned"
    /\ ~HasDuplicates(regions)
    /\ \E r \in Range(regions) : behaviour[r] = "raise" /\ invoked[r] = 1
    /\ \E r \in Range(regions) : behaviour[r] = "slow" /\ invoked[r] = 1
    /\ \E r \in Range(regions) : behaviour[r] = "ok" /\ invoked[r] = 1

\* C12 (malformed payloads never raise), as claimed: whatever payload a
\* region's fetch returns (fields missing, or no mapping at all), building the
\* service aggregate does not raise, and every region is still merged into
\* successful_regions or errors.
C12_MalformedNeverRaises ==
    /\ pc # "raised"
    /\ pc = "done" =>
          Len(aggregate.successful_regions) + Len(aggregate.errors) = Len(results)

\* A thread has completed a call of method o.
Done(t, o) == thread[t].at = "done" /\ thread[t].op = o

Raised_(v) == "raised" \in DOMAIN v
IsList(v) == "list" \in DOMAIN v

\* C13 (discovery once per cache epoch): in any sequence of get_all_regions,
\* get_enabled_regions, filter_regions and clear_cache calls, at most one
\* discovery is attempted between construction or a clear_cache and the next
\* clear_cache; a call discovers only if the all-regions cache was unset when
\* it began, and a get_all_regions or filter_regions call that began with it
\* unset does discover; after get_all_regions the cache is set (also when it
\* holds the fallback); after clear_cache both caches are unset.
C13_DiscoveryOncePerEpoch ==
    /\ discoveries <= 1
    /\ \A t \in Threads :
         /\ thread[t].discovered <= 1
         /\ thread[t].discovered = 1 => thread[t].cold_all
         /\ Done(t, "get_all_regions") \/ Done(t, "filter_regions") =>
               /\ thread[t].discovered = 1 <=> thread[t].cold_all
               /\ ~IsNone(self_all_regions)
               /\ discoveries = 1
         /\ Done(t, "clear_cache") =>
               /\ IsNone(self_all_regions)
               /\ IsNone(self_enabled_regions)
               /\ discoveries = 0

\* A third call in a row finds the fallback of an earlier call cached and
\* discovers nothing.
C13_Witness ==
    /\ calls = 3
    /\ Done(1, "get_all_regions")
    /\ ~thread[1].cold_all
    /\ thread[1].discovered = 0
    /\ discoveries = 1
    /\ thread[1].returned = Some(<<AWS_DEFAULT_REGION>>)

\* The discovery failed: an exception, no response, or no 'Regions' in it.
DiscoveryFailed(o) ==
    \/ o.raises # "no"
    \/ IsNone(o.response)
    \/ "Regions" \notin DOMAIN o.response

\* C14 (discovery never raises): get_all_regions always returns a list, and
\* when its discovery failed in any of the ways (construction raises, the call
\* gives no response, the response lacks 'Regions') the list is exactly the
\* one-element list of the configured default region.
C14_DiscoveryNeverRaises ==
    \A t \in Threads :
        Done(t, "get_all_regions") =>
            /\ IsList(thread[t].returned)
            /\ thread[t].discovered = 1 /\ DiscoveryFailed(thread[t].outcome) =>
                  thread[t].returned = Some(<<AWS_DEFAULT_REGION>>)

C14_Witness ==
    /\ Done(1, "get_all_regions")
    /\ thread[1].discovered = 1
    /\ thread[1].outcome.raises = "no"
    /\ "ResponseMetadata" \in DOMAIN thread[1].outcome.response
    /\ thread[1].returned = Some(<<AWS_DEFAULT_REGION>>)

\* The complete lists the calls under way have produced: what each discovery
\* yields (the discovered list or the fallback), and the allow-list.
CompleteLists ==
    {AllRegionsFrom(thread[t].outcome) : t \in {u \in Threads : thread[u].discovered > 0}}
    \cup (IF ENABLED_REGIONS # <<>> THEN {ENABLED_REGIONS} ELSE {})

IsComplete(v) == IsList(v) /\ v.list \in CompleteLists

\* C15 (concurrent refresh is harmless): when two getter calls meet on a cold
\* cache, under every interleaving each call returns one of the complete lists
\* produced by the calls, and once both have returned each cache a call was
\* to fill holds one of those complete lists, never None or a partial list.
C15_ConcurrentRefreshHarmless ==
    /\ \A t \in Threads : thread[t].at = "done" => IsComplete(thread[t].returned)
    /\ (\A t \in Threads : thread[t].at = "done") =>
          /\ (\E t \in Threads : thread[t].op = "get_all_regions") =>
                IsComplete(self_all_regions)
          /\ (\E t \in Threads : thread[t].op = "get_enabled_regions") =>
                IsComplete(self_enabled_regions)

\* Both calls discovered, with different answers, and the first returned the
\* list of the second.
C15_Witness ==
    /\ Done(1, "get_all_regions") /\ Done(2, "get_all_regions")
    /\ thread[1].discovered = 1 /\ thread[2].discovered = 1
    /\ AllRegionsFrom(thread[1].outcome) # AllRegionsFrom(thread[2].outcome)
    /\ thread[1].returned = Some(AllRegionsFrom(thread[2].outcome))
    /\ self_all_regions = thread[1].returned

C16_Returned ==
    \A t \in Threads :
        Done(t, "get_enabled_regions") =>
            IF ENABLED_REGIONS # <<>>
            THEN thread[t].returned = Some(ENABLED_REGIONS) /\ thread[t].discovered = 0
            ELSE IsList(thread[t].returned) /\ thread[t].returned = self_all_regions

C16_Independent ==
    /\ ~IsNone(self_enabled_regions) /\ self_enabled_regions' # self_enabled_regions =>
          \E t \in Threads : thread[t].at = "clear_enabled"
    /\ ~IsNone(self_all_regions) /\ self_all_regions' # self_all_regions =>
          \E t \in Threads : thread[t].at = "clear_all"
    /\ self_all_regions' # self_all_regions /\ self_enabled_regions' # self_enabled_regions =>
          FALSE

\* C16 (enabled regions): get_enabled_regions returns the configured
\* allow-list whenever it is non-empty, attempting no discovery, and otherwise
\* what get_all_regions returns; the two caches are independent: no step
\* changes both, and a cache that is set changes only by clear_cache.
C16_EnabledRegions == []C16_Returned /\ [][C16_Independent]_vars

\* The allow-list was returned while the all-regions cache holds another list.
C16_Witness ==
    /\ Done(1, "get_enabled_regions")
    /\ ENABLED_REGIONS # <<>>
    /\ thread[1].returned = Some(ENABLED_REGIONS)
    /\ thread[1].discovered = 0
    /\ IsList(self_all_regions)
    /\ self_all_regions # Some(ENABLED_REGIONS)

\* The positions of the candidates that are discovered regions.
Kept(t) ==
    {i \in 1..Len(thread[t].arg) : thread[t].arg[i] \in Range(self_all_regions.list)}

\* C17 (filter_regions): the call returns a list and never raises; the list
\* holds exactly the candidates that are members of get_all_regions(), each
\* kept occurrence once, in the candidates' order: its j-th element is the
\* candidate at the j-th kept position.
C17_FilterRegions ==
    \A t \in Threads :
        Done(t, "filter_regions") =>
            /\ IsList(thread[t].returned)
            /\ Len(thread[t].returned.list) = Cardinality(Kept(t))
            /\ \A j \in 1..Len(thread[t].returned.list) :
                  thread[t].returned.list[j] =
                      thread[t].arg[CHOOSE i \in Kept(t) :
                                        Cardinality({k \in Kept(t) : k <= i}) = j]

\* An invalid candidate was dropped and the two valid ones kept in the
\* candidates' order, which is not the discovery order.
C17_Witness ==
    /\ Done(1, "filter_regions")
    /\ "mars-1" \in Range(thread[1].arg)
    /\ Len(thread[1].returned.list) = Len(thread[1].arg) - 1
    /\ Len(thread[1].returned.list) >= 1

\* c cents is a nearest cent to the exact amount x.
NearestCent(c, x) ==
    LET diff == c * x.den - 100 * x.num IN
    2 * (IF diff < 0 THEN -diff ELSE diff) <= x.den

\* C18 (cost arithmetic): the snapshot's daily_average is mtd_cost /
\* days_elapsed (0 when days_elapsed is 0) and its projected_eom_cost is that
\* average times days_in_month, each reported to the nearest cent of the
\* exact figure; for mtd_cost 62.00, 10 days elapsed and a 30-day month it
\* reports 6.20 and 186.00.
C18_CostArithmetic ==
    snapshot # NoSnapshot =>
        LET d == snapshot.metadata.days_elapsed
            n == snapshot.metadata.days_in_month
        IN  /\ d = today.day
            /\ d > 0 => /\ NearestCent(snapshot.daily_average,
                                       [num |-> mtd_cost.num, den |-> mtd_cost.den * d])
                        /\ NearestCent(snapshot.projected_eom_cost,
                                       [num |-> mtd_cost.num * n, den |-> mtd_cost.den * d])
            /\ d = 0 => snapshot.daily_average = 0 /\ snapshot.projected_eom_cost = 0
            /\ mtd_cost = Mills(62000) /\ d = 10 /\ n = 30 =>
                  snapshot.daily_average = 620 /\ snapshot.projected_eom_cost = 18600

C18_Witness ==
    /\ snapshot # NoSnapshot
    /\ mtd_cost = Mills(62000)
    /\ snapshot.metadata.days_elapsed = 10
    /\ snapshot.metadata.days_in_month = 30
    /\ snapshot.daily_average = 620
    /\ snapshot.projected_eom_cost = 18600

\* The number of days of a calendar month, by the calendar's rule.
TrueDaysInMonth(y, m) ==
    CASE m \in {4, 6, 9, 11} -> 30
      [] m = 2 -> IF (y % 4 = 0 /\ y % 100 # 0) \/ y % 400 = 0 THEN 29 ELSE 28
      [] OTHER -> 31

\* C19 (days in month): for every anchor date, the days_in_month of the
\* snapshot equals the true number of days of the calendar month containing
\* the anchor date, leap and non-leap Februaries included.
C19_DaysInMonth ==
    snapshot # NoSnapshot =>
        snapshot.metadata.days_in_month = TrueDaysInMonth(today.year, today.month)

\* A leap February, a century February that is not leap, and a 31-day
\* December are all computed; the state is the leap one.
C19_Witness ==
    /\ snapshot # NoSnapshot
    /\ today.year = 2024 /\ today.month = 2
    /\ snapshot.metadata.days_in_month = 29

\* The groups of the response, over all its time buckets.
AllGroups == GroupsOf(ce_response.ResultsByTime)

LabelsIn == {AllGroups[i].Keys[1] : i \in 1..Len(AllGroups)}

\* The sum, in thousandths of a dollar, of a label's amounts over all buckets.
SumFor(l) ==
    LET idx == {i \in 1..Len(AllGroups) : AllGroups[i].Keys[1] = l} IN
    SumOver(idx, [i \in idx |-> AllGroups[i].Metrics.UnblendedCost.Amount])

OnePerLabel(entries) ==
    /\ {entries[j].service : j \in 1..Len(entries)} = LabelsIn
    /\ Len(entries) = Cardinality(LabelsIn)

Descending(entries) ==
    \A j \in 1..Len(entries) : \A k \in j..Len(entries) :
        entries[j].cost >= entries[k].cost

\* A 5.0, B 20.0 and C 1.0 over two buckets give [B 20.0, A 5.0, C 1.0].
BreakdownExample(entries) ==
    /\ Len(ce_response.ResultsByTime) = 2
    /\ LabelsIn = {"A", "B", "C"}
    /\ SumFor("A") = 5000 /\ SumFor("B") = 20000 /\ SumFor("C") = 1000
    => entries = <<[service |-> "B", cost |-> 2000], [service |-> "A", cost |-> 500],
                   [service |-> "C", cost |-> 100]>>

SubCallFailed(c) == subcall[c] # "ok"

EverySnapshotField ==
    {"mtd_cost", "projected_eom_cost", "daily_average", "yesterday_cost",
     "daily_costs", "service_costs"}

\* C21 (cost sub-call degradation): whichever of the four billing sub-calls
\* fail, and however, get_cost_and_usage returns a result with every snapshot
\* field; the field of a failed sub-call is zero or empty (with the average
\* and the projection when the period total failed), and the field of each
\* sub-call that succeeded has the value it has when all succeed.
C21_SubCallDegradation ==
    snapshot # NoSnapshot =>
        /\ EverySnapshotField \subseteq DOMAIN snapshot
        /\ IF SubCallFailed("mtd")
           THEN /\ snapshot.mtd_cost = 0
                /\ snapshot.daily_average = 0
                /\ snapshot.projected_eom_cost = 0
           ELSE /\ NearestCent(snapshot.mtd_cost, mtd_cost)
                /\ NearestCent(snapshot.daily_average,
                               [num |-> mtd_cost.num, den |-> mtd_cost.den * today.day])
        /\ IF SubCallFailed("yesterday")
           THEN snapshot.yesterday_cost = 0
           ELSE NearestCent(snapshot.yesterday_cost, yesterday_cost)
        /\ IF SubCallFailed("daily")
           THEN snapshot.daily_costs = <<>>
           ELSE /\ Len(snapshot.daily_costs) = Len(daily_response.ResultsByTime)
                /\ \A i \in 1..Len(snapshot.daily_costs) :
                      /\ snapshot.daily_costs[i].date =
                             daily_response.ResultsByTime[i].TimePeriod.Start
                      /\ NearestCent(snapshot.daily_costs[i].cost,
                            Mills(daily_response.ResultsByTime[i].Total.UnblendedCost.Amount))
        /\ IF SubCallFailed("services")
           THEN snapshot.service_costs = <<>>
           ELSE /\ OnePerLabel(snapshot.service_costs)
                /\ Descending(snapshot.service_costs)
                /\ \A j \in 1..Len(snapshot.service_costs) :
                      NearestCent(snapshot.service_costs[j].cost,
                                  Mills(SumFor(snapshot.service_costs[j].service)))

\* Reading the daily series raised and the breakdown got no response, while
\* both period totals came through.
C21_Witness ==
    /\ snapshot # NoSnapshot
    /\ subcall = [mtd |-> "ok", daily |-> "raises", services |-> "none", yesterday |-> "ok"]
    /\ mtd_cost = Mills(62000)
    /\ yesterday_cost = Mills(2345)
    /\ snapshot.mtd_cost = 6200
    /\ snapshot.yesterday_cost \in {234, 235}
    /\ snapshot.daily_costs = <<>>
    /\ snapshot.service_costs = <<>>

\* The aggregate of the S3 fetch reports this many errors.
S3Errors == IF HasError(resources.s3) THEN 1 ELSE 0

\* C22 (global-service bypass): however many regions are queried, one
\* fetch_all_resources call makes one S3 fetch (one S3Client, and at most one
\* get_buckets call: exactly one unless the client could not be built); the
\* S3 aggregate reports at most one error; and whatever the S3 fetch does,
\* the call returns, the EC2, Glue and SageMaker aggregates are among those
\* the regions and their providers produce, and total_regions is the length
\* of the regions list.
C22_GlobalServiceBypass ==
    /\ s3_fetches.clients <= 1 /\ s3_fetches.get_buckets <= 1
    /\ fa_pc \in {"s3", "glue", "sagemaker", "returned"} =>
          /\ s3_fetches.clients = 1
          /\ s3_fetches.get_buckets = (IF s3_behaviour = "no_credentials" THEN 0 ELSE 1)
          /\ S3Errors <= 1
          /\ S3Errors = 1 <=> s3_behaviour = "no_credentials"
    /\ fa_pc = "returned" =>
          /\ resources.ec2 \in RegionalAggregates("ec2")
          /\ resources.glue \in RegionalAggregates("glue")
          /\ resources.sagemaker \in RegionalAggregates("sagemaker")
          /\ resources.regions_queried = queried
          /\ resources.total_regions = Len(queried)

\* Two regions were queried, the S3 client could not be built, and the
\* regional aggregates are there.
C22_Witness ==
    /\ fa_pc = "returned"
    /\ Len(queried) = 2
    /\ s3_behaviour = "no_credentials"
    /\ HasError(resources.s3)
    /\ s3_fetches = [clients |-> 1, get_buckets |-> 0]
    /\ Len(resources.ec2.successful_regions) = 2
    /\ Len(resources.glue.successful_regions) = 2

\* For each counter of the summary: its section, its name, and the name of
\* the input counter it reports.
SummaryFields ==
    {<<"ec2", "total_instances", "total">>, <<"ec2", "running_instances", "running">>,
     <<"ec2", "stopped_instances", "stopped">>,
     <<"s3", "total_buckets", "total">>, <<"s3", "total_size_gb", "total_size_gb">>,
     <<"glue", "total_databases", "total_databases">>,
     <<"glue", "total_tables", "total_tables">>,
     <<"sagemaker", "total_notebooks", "total_notebooks">>,
     <<"sagemaker", "active_notebooks", "active_notebooks">>,
     <<"sagemaker", "total_endpoints", "total_endpoints">>}

InputCounterPresent(svc, k) ==
    /\ svc \in DOMAIN resources
    /\ "summary" \in DOMAIN resources[svc]
    /\ k \in DOMAIN resources[svc].summary

\* C23 (summary projection): for a resources mapping with any subset of the
\* service keys and any subset of the summary counters, get_resource_summary
\* returns a summary whose every counter is the corresponding input counter
\* when that is present and 0 when it is absent, whose regions.queried is the
\* input's total_regions (0 when absent), and it changes nothing else.
C23_SummaryProjection ==
    /\ [](fa_pc = "summarised" =>
            /\ DOMAIN summary = SummaryServices \cup {"regions"}
            /\ \A f \in SummaryFields :
                  summary[f[1]][f[2]] =
                      IF InputCounterPresent(f[1], f[3])
                      THEN resources[f[1]].summary[f[3]] ELSE 0
            /\ \A svc \in SummaryServices :
                  DOMAIN summary[svc] = {f[2] : f \in {g \in SummaryFields : g[1] = svc}}
            /\ summary.regions =
                  [queried |-> IF "total_regions" \in DOMAIN resources
                               THEN resources.total_regions ELSE 0])
    /\ [][fa_pc' = "summarised" =>
            UNCHANGED <<beside_all, resources, queried, s3_fetches>>]_vars

\* A summary was made of an input that lacks the s3 key, whose ec2 summary
\* holds the running counter only and whose glue entry has no summary.
C23_Witness ==
    /\ fa_pc = "summarised"
    /\ "s3" \notin DOMAIN resources
    /\ InputCounterPresent("ec2", "running") /\ ~InputCounterPresent("ec2", "total")
    /\ "glue" \in DOMAIN resources /\ "summary" \notin DOMAIN resources.glue
    /\ InputCounterPresent("sagemaker", "total_endpoints")
    /\ summary.ec2.running_instances = 12 /\ summary.ec2.total_instances = 0
    /\ summary.s3.total_buckets = 0

RetryDone == retry_pc \in {"returned", "raised"}

\* C24 (safe_api_call never propagates): whatever each invocation of the
\* wrapped call does on each attempt (returns, raises a throttling, permission
\* or other client error, or another exception), safe_api_call does not
\* raise, what it returns is None or the response of an invocation that
\* succeeded, None only when no invocation made succeeded, and it comes
\* to an end.
C24_NeverPropagates ==
    /\ [](/\ retry_pc # "raised"
          /\ retry_pc = "returned" =>
                \/ /\ api_result = None_
                   /\ \A i \in 1..invocations : func_script[i] # "ok"
                \/ \E a \in 0..(invocations - 1) :
                      func_script[a + 1] = "ok" /\ api_result = AttemptResponse(a))
    /\ <>RetryDone

\* All three attempts failed, each in another way, and None was returned.
C24_Witness ==
    /\ retry_pc = "returned"
    /\ retries = 3
    /\ func_script = <<"InternalError", "Exception", "ThrottlingException">>
    /\ invocations = 3
    /\ api_result = None_

C26_PermissionStops ==
    \A i \in 1..invocations :
        func_script[i] \in PermissionCodes =>
            /\ i = invocations
            /\ retry_pc = "returned"
            /\ api_result = None_
            /\ Len(slept) = i - 1

\* The second of three attempts was denied after the first was throttled and
\* retried; the third, which would have succeeded, was not made.
C26_Witness ==
    /\ retry_pc = "returned"
    /\ retries = 3
    /\ func_script = <<"Throttling", "UnauthorizedOperation", "ok">>
    /\ invocations = 2
    /\ slept = <<1>>
    /\ api_result = None_

\* C27 (invalidation race): a get_all_regions or get_enabled_regions call
\* that ran while another thread called clear_cache returned a region list:
\* never the cleared (None) cache value, and it did not raise.
C27_GetterSurvivesClear ==
    \A t \in Threads :
        Done(t, "get_all_regions") \/ Done(t, "get_enabled_regions") =>
            IsList(thread[t].returned)

\* C28 (region list is never empty): whatever the discovery met,
\* get_all_regions returns a list with at least one region, and so does
\* get_enabled_regions when no allow-list is configured.
C28_NeverEmpty ==
    \A t \in Threads :
        \/ Done(t, "get_all_regions")
        \/ Done(t, "get_enabled_regions") /\ ENABLED_REGIONS = <<>>
        => /\ IsList(thread[t].returned)
           /\ Len(thread[t].returned.list) >= 1

RegionalServices == {"ec2", "glue", "sagemaker"}

\* The regions of the errors of an aggregate, in order.
ErrorRegionsOf(agg) == [k \in 1..Len(agg.errors) |-> agg.errors[k].region]

\* C29 (region-count consistency), as claimed: for any regions list, one
\* that names a region twice included, total_regions equals
\* len(successful_regions) + len(errors) of each of the EC2, Glue and
\* SageMaker aggregates, and no region appears twice within
\* successful_regions or within errors.
C29_TotalIsAggregateCount ==
    fa_pc = "returned" =>
        \A svc \in RegionalServices :
            /\ resources.total_regions =
                  Len(resources[svc].successful_regions) + Len(resources[svc].errors)
            /\ ~HasDuplicates(resources[svc].successful_regions)
            /\ ~HasDuplicates(ErrorRegionsOf(resources[svc]))

\* C29, amended: total_regions is the length of the regions list, while
\* len(successful_regions) + len(errors) of each of the three aggregates is
\* the number of DISTINCT regions in it; the two are equal exactly when no
\* region is listed twice.  No region appears twice within
\* successful_regions or within errors, nor in both.
C29_TotalIsListLength ==
    fa_pc = "returned" =>
        /\ resources.total_regions = Len(queried)
        /\ \A svc \in RegionalServices :
              LET ok == resources[svc].successful_regions
                  failed == ErrorRegionsOf(resources[svc])
              IN  /\ Len(ok) + Len(failed) = Cardinality(Range(queried))
                  /\ Len(ok) + Len(failed) <= resources.total_regions
                  /\ Len(ok) + Len(failed) = resources.total_regions
                        <=> ~HasDuplicates(queried)
                  /\ ~HasDuplicates(ok) /\ ~HasDuplicates(failed)
                  /\ Range(ok) \cap Range(failed) = {}
                  /\ Range(ok) \cup Range(failed) = Range(queried)

\* The same region was listed twice: total_regions is 2 and each aggregate
\* holds the region once.
C29_Witness ==
    /\ fa_pc = "returned"
    /\ Len(queried) = 2
    /\ HasDuplicates(queried)
    /\ resources.total_regions = 2
    /\ Len(resources.glue.successful_regions) = 1
    /\ Len(resources.ec2.errors) = 1
    /\ resources.ec2.successful_regions = <<>>

\* C30 (projection bounds): for every anchor date the snapshot's
\* days_elapsed lies between 1 and days_in_month, and whenever mtd_cost >= 0
\* its projected_eom_cost is at least its mtd_cost, and equal to it on the
\* last day of the month.
C30_ProjectionBounds ==
    snapshot # NoSnapshot =>
        LET d == snapshot.metadata.days_elapsed
            n == snapshot.metadata.days_in_month
        IN  /\ 1 <= d /\ d <= n
            /\ snapshot.mtd_cost >= 0 =>
                  /\ snapshot.projected_eom_cost >= snapshot.mtd_cost
                  /\ d = n => snapshot.projected_eom_cost = snapshot.mtd_cost

====
